---- MODULE Spec2Model ----
(***************************************************************************)
(* CarbonCode: the Electron main-process services (analytics, compiler     *)
(* detection, compilation, interactive process supervision) and the        *)
(* renderer's run/output state, as state machines.                         *)
(*                                                                         *)
(* Several specifications share the variables; each one moves only the     *)
(* group of variables of the service it models:                            *)
(*   AnalyticsSpec  electron/analytics.ts and its IPC handlers             *)
(*   DetectSpec     compiler detection, its cache and the compile command  *)
(*   CompileSpec    one compilation: the compiler's output streams, the    *)
(*                  result of compileCode and the reply of process:start   *)
(*   CompileFairSpec  CompileSpec with the fairness of the event loop      *)
(*   RunSpec        runs of the user's program: the process:start and      *)
(*                  process:stop handlers, startInteractiveProcess, the    *)
(*                  IPC channel to the renderer and the renderer's state   *)
(*   RunFairSpec    RunSpec with the fairness of the event loop            *)
(*   LegacySpec     compileAndRun, the one-shot compile and run            *)
(*   TabsSpec       the renderer's file tabs (useFileManager, App.tsx)     *)
(*   DebugSpec      electron/debugger.ts and the GDB processes it drives   *)
(***************************************************************************)
EXTENDS Integers, Sequences, FiniteSets, TLC

\* ------------------------------------------------------------------ bounds
\* requests recorded per execution
MaxSent == 2
\* readings of Date.now()
MaxClock == 2
\* characters the compiler writes to one stream
MaxText == 2
\* runs started (process:start calls)
MaxRuns == 2
\* stdout chunks one program emits
MaxBytes == 2

MaxFairBytes == 1
\* input lines the user types
MaxInputs == 1
\* tabs created or opened
MaxTabs == 2
\* GDB processes spawned
MaxSessions == 2
\* calls of the debugger service
MaxCalls == 2

\* Chunks of GDB's output that end inside a line, per execution
MaxCuts == 1

\* Pieces of text the program of compileAndRun writes, stdout and stderr together
MaxLegacyText == 2

VARIABLES
    \* --- analytics (electron/analytics.ts, main.ts) ---
    settingsFile,     \* analytics-settings.json: [exists, clientId, consent]
    sent,             \* per execution: the payloads written to https.request
    sentVia,          \* which process asked for each request: "main" / "renderer"
    nowMs,            \* Date.now()
    appReady,         \* app.whenReady() has run
    currentFilePath,  \* per execution: main.ts currentFilePath (user data)
    sourceFile,       \* per execution: the code written to main.cpp (user data)
    \* --- compiler detection (electron/compiler.ts) ---
    detectedCompilerPath,  \* the cached compiler path, Null when none
    isBundledCompiler,
    compilerSource,        \* 'custom' | 'bundled' | 'system' | 'none'
    existingFiles,         \* the paths existsSync() finds
    runnableCommands,      \* the commands execSync() can run from PATH
    lastDetect,            \* the last detectCompiler(customPath) call and its result
    lastSet,               \* the last setCustomCompilerPath call
    lastCompile,           \* the last compileCode since then: the program it ran
    \* --- one compilation (compileCode, runCompilationProcess) ---
    compilePhase,     \* "idle" | "compiling" | "returned"
    compilerWrote,    \* the text the compiler wrote: [stderr, stdout]
    pipeStderr,       \* bytes of it not yet read from the stderr pipe
    pipeStdout,       \* bytes of it not yet read from the stdout pipe
    compileStderr,    \* runCompilationProcess: let stderr
    compileStdout,    \* runCompilationProcess: let stdout
    compileEnd,       \* how the compiler process ended: [kind, code]
    compileTempDir,   \* "none" | "exists" | "removed"
    compileReturn,    \* what compileCode returned
    startReply,       \* what the process:start handler returned
    startCalled,      \* the handler called startInteractiveProcess
    compileTimer,     \* the 30 s timer of runCompilationProcess: "none" | "set", or
                      \* what its proc.kill() has ended: "compiler" | "shell"
    \* --- runs of the user's program (compiler.ts, main.ts, App.tsx) ---
    runCount,         \* process:start calls handled so far; the last one's id
    handler,          \* per run, its process:start handler: "none" | "compiling" | "failed" | "started"
    tempDir,          \* per run, its temporary directory: "none" | "exists" | "removed"
    proc,             \* per run, its program: "none" | "alive" | "failing" | "errored" | "closed"
    signalled,        \* per run: kill('SIGTERM') was called on its program
    cleanupTimer,     \* per run: the 500 ms cleanup timer is pending
    exitCodes,        \* per run: the codes handed to onExit
    closeCode,        \* per run: the code of its 'close' event, "none" before it
    emitted,          \* per run: the bytes its program has written to stdout
    bytesLeft,        \* the bytes the programs of the session can still write
    currentProcess,   \* compiler.ts currentProcess: a run id, 0 for null
    ipc,              \* messages from the main process to the renderer, in order
    handleRunPhase,   \* App.tsx handleRun / handleStop: "idle" | "awaitStop" | "awaitStart" | "awaitStopOnly"
    isRunning,        \* App.tsx state
    isCompiling,      \* App.tsx state
    compilationResult,\* App.tsx state: [shown, success, output]
    shownRun,         \* the run whose start the renderer has displayed, 0 for none
    inputs,           \* input lines the user has typed
    \* --- compileAndRun (compiler.ts) ---
    legacyPhase,      \* "idle" | "compiling" | "running" | "returned"
    legacyTempDir,    \* its temporary directory: "none" | "exists" | "removed"
    legacyProc,       \* its program: "none" | "alive" | "failing" | "errored" | "closed"
    legacySignalled,  \* kill('SIGTERM') was called on its program
    legacyCleanupTimer, \* the 500 ms cleanup timer is pending
    legacyStdout,     \* compileAndRun: let stdout
    legacyStderr,     \* compileAndRun: let stderr
    legacyCloseCode,  \* the code of the program's 'close' event, "none" before it
    legacyReturn,     \* what the promise of compileAndRun is resolved with
    \* --- file tabs (src/hooks/useFileManager.ts, App.tsx) ---
    tabs,             \* per tab id: [open, filePath, content, isDirty]
    activeTabId,      \* 0 for null
    tabCount,         \* tabs made so far (generateId never repeats)
    saveInFlight,     \* the awaited saveFile of handleSave / handleSaveAs
    onFile,           \* per tab: the content last loaded from or saved to its
                      \* file, and whether an untitled tab's content has changed
    \* --- the debugger (electron/debugger.ts) ---
    gdbProcess,       \* the session this.gdbProcess refers to, 0 for null
    debugState,       \* this.state: [status, breakpoints, locals]
    breakpointCounter,
    listeners,        \* the 'stdout' listeners of pending promises, in order
    commandCount,     \* promises made so far; the last one's id
    lastResolved,     \* the promises resolved in the last step: [id, via, data]
    bpCommand,        \* per breakpoint id of the state: the command that added it
    gdb,              \* per session, the GDB process: [life, program, stdin,
                      \* stdout, cut, breakpoints, nextNumber, records]
    stopCompleted,    \* stop() has completed since the last start()
    answers,          \* per command: what GDB answered to it
    recordBalance,    \* per session: status records GDB has emitted less the
                      \* status assignments handleOutput has made for them
    lastCall,         \* the call of the service made in the last step, if any
    lastChunk,        \* the chunk the last step has processed, if any: its session,
                      \* its data and the number of promises made before it
    reported,         \* per session: the execution state according to the last
                      \* status record handed over to handleOutput
    callsLeft,        \* calls of the service still to be made
    sessionsLeft,     \* debugging sessions still to be started
    cutsLeft          \* chunks of GDB's output that may still end inside a line

analyticsVars ==
    <<settingsFile, sent, sentVia, nowMs, appReady, currentFilePath, sourceFile>>

detectVars ==
    <<detectedCompilerPath, isBundledCompiler, compilerSource, existingFiles,
      runnableCommands, lastDetect, lastSet, lastCompile>>

compileVars ==
    <<compilePhase, compilerWrote, pipeStderr, pipeStdout, compileStderr,
      compileStdout, compileEnd, compileTempDir, compileReturn, startReply,
      startCalled, compileTimer>>

mainRunVars ==
    <<runCount, handler, tempDir, proc, signalled, cleanupTimer, exitCodes, closeCode,
      emitted, bytesLeft, currentProcess>>

rendererVars ==
    <<handleRunPhase, isRunning, isCompiling, compilationResult, shownRun, inputs>>

runVars ==
    <<mainRunVars, ipc, rendererVars>>

legacyVars ==
    <<legacyPhase, legacyTempDir, legacyProc, legacySignalled, legacyCleanupTimer,
      legacyStdout, legacyStderr, legacyCloseCode, legacyReturn>>

tabsVars ==
    <<tabs, activeTabId, tabCount, saveInFlight, onFile>>

debugVars ==
    <<gdbProcess, debugState, breakpointCounter, listeners, commandCount, lastResolved,
      bpCommand, gdb, stopCompleted, answers, recordBalance, lastCall, callsLeft,
      sessionsLeft, cutsLeft, lastChunk, reported>>

vars ==
    <<analyticsVars, detectVars, compileVars, runVars, legacyVars, tabsVars, debugVars>>

nonDebugVars ==
    <<analyticsVars, detectVars, compileVars, runVars, legacyVars, tabsVars>>

nonAnalyticsVars ==
    <<detectVars, compileVars, runVars, legacyVars, tabsVars, debugVars>>

nonDetectVars ==
    <<analyticsVars, compileVars, runVars, legacyVars, tabsVars, debugVars>>

nonCompileVars ==
    <<analyticsVars, detectVars, runVars, legacyVars, tabsVars, debugVars>>

nonRunVars ==
    <<analyticsVars, detectVars, compileVars, legacyVars, tabsVars, debugVars>>

nonTabsVars ==
    <<analyticsVars, detectVars, compileVars, runVars, legacyVars, debugVars>>

\* compileAndRun shares currentProcess with the runs
nonLegacyVars ==
    <<analyticsVars, detectVars, compileVars, runCount, handler, tempDir, proc, signalled,
      cleanupTimer, exitCodes, closeCode, emitted, bytesLeft, ipc, rendererVars, tabsVars,
      debugVars>>

\* ============================================================== analytics
\* Two executions of the application run side by side. They receive the same
\* events, the same clock and the same random values, and differ only in the
\* user's data: the files opened and the code compiled.
Executions == {1, 2}

FilePaths == {"C:/home/alice/secret.cpp", "main.cpp"}

Codes == {"int main(){}", "int main(){return 1;}"}

UUIDs == {"uuid-1", "uuid-2"}

\* The names the renderer may pass to analytics:track: the five documented
\* ones, app_launch, and a name the application does not know.
ListedEvents == {"file_created", "file_opened", "code_compiled", "code_run", "debug_started"}

RendererEventNames == ListedEvents \cup {"app_launch", "page_view"}

NoSettingsFile == [exists |-> FALSE, clientId |-> "", consent |-> "null"]

SettingsFiles ==
    {NoSettingsFile} \cup
    [exists : {TRUE}, clientId : UUIDs, consent : {"null", "true", "false"}]

\* saveAnalyticsSettings: writeFileSync of the JSON text; a failed write is
\* caught and leaves the file as it was.
saveAnalyticsSettings(file, settings, writeOk) ==
    IF writeOk
    THEN [exists |-> TRUE, clientId |-> settings.clientId, consent |-> settings.consent]
    ELSE file

\* getAnalyticsSettings: the parsed file when it exists, otherwise fresh
\* settings (random clientId, consent null) that are saved at once.
\* Returns the settings and the file afterwards.
getAnalyticsSettings(file, uuid, writeOk) ==
    IF file.exists
    THEN [settings |-> [clientId |-> file.clientId, consent |-> file.consent],
          file |-> file]
    ELSE LET newSettings == [clientId |-> uuid, consent |-> "null"]
         IN  [settings |-> newSettings,
              file |-> saveAnalyticsSettings(file, newSettings, writeOk)]

hasAnalyticsConsent_OptOut(settings) ==
    settings.consent # "false"

\* hasAnalyticsConsent: consent === true
hasAnalyticsConsent(settings) ==
    settings.consent = "true"

EventParameters_Leak(eventName, e) ==
    IF eventName = "file_opened"
    THEN [file_path |-> currentFilePath[e]]
    ELSE IF eventName \in {"code_compiled", "code_run"}
         THEN [code |-> sourceFile[e]]
         ELSE <<>>

\* The parameters the track* functions hand to trackEvent: none.
EventParameters(eventName, e) ==
    <<>>

AppVersion == "3.0.0"

Platform == "win32"

\* The GA4 Measurement Protocol payload trackEvent builds.
Payload(settings, eventName, parameters, now) ==
    [client_id |-> settings.clientId,
     name |-> eventName,
     params |-> parameters @@
                [app_version |-> AppVersion,
                 platform |-> Platform,
                 session_id |-> now,
                 engagement_time_msec |-> 100]]

\* trackEvent(eventName), asked for by `via`: reads the settings, reads them
\* again in hasAnalyticsConsent(), and posts the payload only with consent.
trackEvent(eventName, via) ==
    \E u1 \in UUIDs, u2 \in UUIDs, ok1 \in BOOLEAN, ok2 \in BOOLEAN :
        LET g1 == getAnalyticsSettings(settingsFile, u1, ok1)
            g2 == getAnalyticsSettings(g1.file, u2, ok2)
        IN  /\ settingsFile' = g2.file
            /\ IF hasAnalyticsConsent(g2.settings)
               THEN /\ Len(sentVia) < MaxSent
                    /\ sent' = [e \in Executions |->
                                  Append(sent[e],
                                         Payload(g1.settings, eventName,
                                                 EventParameters(eventName, e), nowMs))]
                    /\ sentVia' = Append(sentVia, via)
               ELSE UNCHANGED <<sent, sentVia>>

\* app.whenReady(): createWindow(), then analytics.trackAppLaunch().
AppWhenReady ==
    /\ UNCHANGED nonAnalyticsVars
    /\ ~appReady
    /\ appReady' = TRUE
    /\ trackEvent("app_launch", "main")
    /\ UNCHANGED <<nowMs, currentFilePath, sourceFile>>

TrackedName_Any(eventName) ==
    eventName

\* The switch of ipcMain.handle('analytics:track'): the event a name is
\* dispatched to, "none" for a name without a case.
TrackedName(eventName) ==
    CASE eventName = "file_created" -> "file_created"
      [] eventName = "file_opened" -> "file_opened"
      [] eventName = "code_compiled" -> "code_compiled"
      [] eventName = "code_run" -> "code_run"
      [] eventName = "debug_started" -> "debug_started"
      [] OTHER -> "none"

\* ipcMain.handle('analytics:track')
AnalyticsTrack ==
    /\ UNCHANGED nonAnalyticsVars
    /\ appReady
    /\ \E eventName \in RendererEventNames :
        IF TrackedName(eventName) = "none"
        THEN UNCHANGED <<settingsFile, sent, sentVia>>
        ELSE trackEvent(TrackedName(eventName), "renderer")
    /\ UNCHANGED <<nowMs, appReady, currentFilePath, sourceFile>>

\* setAnalyticsConsent(consent)
setAnalyticsConsent(consent) ==
    \E u \in UUIDs, ok1 \in BOOLEAN, ok2 \in BOOLEAN :
        LET g == getAnalyticsSettings(settingsFile, u, ok1)
            updated == [g.settings EXCEPT !.consent = IF consent THEN "true" ELSE "false"]
        IN  settingsFile' = saveAnalyticsSettings(g.file, updated, ok2)

\* ipcMain.handle('analytics:set-consent')
AnalyticsSetConsent ==
    /\ UNCHANGED nonAnalyticsVars
    /\ appReady
    /\ \E consent \in BOOLEAN : setAnalyticsConsent(consent)
    /\ UNCHANGED <<sent, sentVia, nowMs, appReady, currentFilePath, sourceFile>>

\* ipcMain.handle('analytics:get-consent') and ('analytics:has-been-asked'):
\* both read the settings, which creates the file when it is missing.
AnalyticsGetConsent ==
    /\ UNCHANGED nonAnalyticsVars
    /\ appReady
    /\ \E u \in UUIDs, ok \in BOOLEAN :
        settingsFile' = getAnalyticsSettings(settingsFile, u, ok).file
    /\ UNCHANGED <<sent, sentVia, nowMs, appReady, currentFilePath, sourceFile>>

\* ipcMain.handle('dialog:open-file'): the chosen path is kept in main.ts.
DialogOpenFile ==
    /\ UNCHANGED nonAnalyticsVars
    /\ appReady
    /\ \E p \in [Executions -> FilePaths] : currentFilePath' = p
    /\ UNCHANGED <<settingsFile, sent, sentVia, nowMs, appReady, sourceFile>>

\* compileCode: writeFileSync(sourceFile, code)
WriteSourceFile ==
    /\ UNCHANGED nonAnalyticsVars
    /\ appReady
    /\ \E c \in [Executions -> Codes] : sourceFile' = c
    /\ UNCHANGED <<settingsFile, sent, sentVia, nowMs, appReady, currentFilePath>>

\* Time passes.
ClockTick ==
    /\ UNCHANGED nonAnalyticsVars
    /\ nowMs < MaxClock
    /\ nowMs' = nowMs + 1
    /\ UNCHANGED <<settingsFile, sent, sentVia, appReady, currentFilePath, sourceFile>>

\* The analytics service before app.whenReady(), with a settings file of a
\* first launch: none.
AnalyticsIdle ==
    /\ settingsFile = NoSettingsFile
    /\ sent = [e \in Executions |-> <<>>]
    /\ sentVia = <<>>
    /\ nowMs = 0
    /\ appReady = FALSE
    /\ currentFilePath = [e \in Executions |-> "main.cpp"]
    /\ sourceFile = [e \in Executions |-> "int main(){}"]

\* At launch the settings file is whatever earlier launches left.
AnalyticsInit ==
    /\ settingsFile \in SettingsFiles
    /\ sent = [e \in Executions |-> <<>>]
    /\ sentVia = <<>>
    /\ nowMs = 0
    /\ appReady = FALSE
    /\ currentFilePath = [e \in Executions |-> "main.cpp"]
    /\ sourceFile = [e \in Executions |-> "int main(){}"]

AnalyticsNext ==
    \/ AppWhenReady
    \/ AnalyticsTrack
    \/ AnalyticsSetConsent
    \/ AnalyticsGetConsent
    \/ DialogOpenFile
    \/ WriteSourceFile
    \/ ClockTick

\* The consent stored in the settings file; a missing file is "never asked".
StoredConsent ==
    IF settingsFile.exists THEN settingsFile.consent ELSE "null"

\* C2: analytics is opt-in. A step that sends a request to Google Analytics
\* is taken only while the stored consent is true; with consent null (never
\* asked, or no settings file) or false no request is sent.
C2_OptIn ==
    [][Len(sentVia') > Len(sentVia) => (StoredConsent = "true" /\ StoredConsent' = "true")]_vars

\* C2 witness: a request was sent under consent and the user then opted out.
C2_Witness ==
    /\ Len(sentVia) >= 1
    /\ StoredConsent = "false"

\* C9: every request the renderer caused carries one of the five listed
\* event names, and app_launch is sent only by the main process.
C9_ListedEventsOnly ==
    \A e \in Executions : \A i \in DOMAIN sent[e] :
        /\ sentVia[i] = "renderer" => sent[e][i].name \in ListedEvents
        /\ sent[e][i].name = "app_launch" => sentVia[i] = "main"
        /\ sent[e][i].name \in ListedEvents \cup {"app_launch"}

\* C9 witness: the main process sent app_launch and the renderer a listed event.
C9_Witness ==
    /\ Len(sentVia) = 2
    /\ sentVia[1] = "main"
    /\ sentVia[2] = "renderer"
    /\ sent[1][2].name = "code_run"

\* C10: the payloads of two executions that differ only in the files opened
\* and the code compiled are identical, and a payload has exactly the fields
\* client_id, name, app_version, platform, session_id, engagement_time_msec.
C10_PayloadIndependentOfUserData ==
    /\ sent[1] = sent[2]
    /\ \A e \in Executions : \A i \in DOMAIN sent[e] :
        /\ DOMAIN sent[e][i] = {"client_id", "name", "params"}
        /\ DOMAIN sent[e][i].params =
              {"app_version", "platform", "session_id", "engagement_time_msec"}

\* C10 witness: the executions differ in the file opened and in the code
\* compiled, and both have sent a file_opened and a code_run event.
C10_Witness ==
    /\ currentFilePath[1] # currentFilePath[2]
    /\ sourceFile[1] # sourceFile[2]
    /\ Len(sentVia) = 2
    /\ {sent[1][1].name, sent[1][2].name} = {"file_opened", "code_run"}

\* ====================================================== compiler detection
\* null and undefined
Null == "<null>"

\* JavaScript truthiness of a string | null | undefined
Truthy(x) ==
    x \notin {Null, ""}

\* join(process.resourcesPath, 'mingw64', 'bin', 'g++.exe')
BundledResourcesPath == "C:/Program Files/CarbonCode/resources/mingw64/bin/g++.exe"

\* join(app.getAppPath(), 'vendor', 'mingw64', 'bin', 'g++.exe')
BundledVendorPath == "D:/dev/CarbonCode/vendor/mingw64/bin/g++.exe"

\* The paths a user may enter as custom compiler: none, the empty string, a
\* path without and a path with a space.
CustomPaths == {Null, "", "D:/tools/g++.exe", "C:/my gcc/clang++.exe"}

AllFiles == {BundledResourcesPath, BundledVendorPath, "D:/tools/g++.exe", "C:/my gcc/clang++.exe"}

\* compilerPath.includes(' ')
IncludesSpace(path) ==
    path \in {BundledResourcesPath, "C:/my gcc/clang++.exe"}

\* The first word of a command line, which an unquoted path with a space is
\* cut down to by the shell.
FirstWord(path) ==
    CASE path = BundledResourcesPath -> "C:/Program"
      [] path = "C:/my gcc/clang++.exe" -> "C:/my"
      [] OTHER -> path

\* The system compilers in the order detectCompiler tries them.
SystemCompilers == <<"g++", "clang++", "cl.exe">>

\* getBundledCompilerPath: the packaged compiler, then the one under vendor/.
getBundledCompilerPath ==
    IF BundledResourcesPath \in existingFiles THEN BundledResourcesPath
    ELSE IF BundledVendorPath \in existingFiles THEN BundledVendorPath
    ELSE Null

\* The loop over the system compilers: the first one execSync can run.
FirstRunnable ==
    IF \E i \in DOMAIN SystemCompilers : SystemCompilers[i] \in runnableCommands
    THEN SystemCompilers[CHOOSE i \in DOMAIN SystemCompilers :
            /\ SystemCompilers[i] \in runnableCommands
            /\ \A j \in 1..(i - 1) : SystemCompilers[j] \notin runnableCommands]
    ELSE Null

\* What the documented priority (custom > bundled > system PATH) selects.
PriorityChoice(customPath) ==
    IF Truthy(customPath) /\ customPath \in existingFiles THEN customPath
    ELSE IF getBundledCompilerPath # Null THEN getBundledCompilerPath
    ELSE FirstRunnable

detectCompiler_BundledFirst(customPath) ==
    IF Truthy(detectedCompilerPath)
    THEN [path |-> detectedCompilerPath, bundled |-> isBundledCompiler,
          source |-> compilerSource, result |-> detectedCompilerPath, cached |-> TRUE]
    ELSE IF getBundledCompilerPath # Null
    THEN [path |-> getBundledCompilerPath, bundled |-> TRUE, source |-> "bundled",
          result |-> getBundledCompilerPath, cached |-> FALSE]
    ELSE IF Truthy(customPath) /\ customPath \in existingFiles
    THEN [path |-> customPath, bundled |-> FALSE, source |-> "custom",
          result |-> customPath, cached |-> FALSE]
    ELSE IF FirstRunnable # Null
    THEN [path |-> FirstRunnable, bundled |-> FALSE, source |-> "system",
          result |-> FirstRunnable, cached |-> FALSE]
    ELSE [path |-> detectedCompilerPath, bundled |-> isBundledCompiler,
          source |-> "none", result |-> Null, cached |-> FALSE]

\* detectCompiler(customPath): the module state afterwards (path, bundled,
\* source), the value returned, and whether the cache answered.
detectCompiler(customPath) ==
    IF Truthy(detectedCompilerPath)
    THEN [path |-> detectedCompilerPath, bundled |-> isBundledCompiler,
          source |-> compilerSource, result |-> detectedCompilerPath, cached |-> TRUE]
    ELSE IF Truthy(customPath) /\ customPath \in existingFiles
    THEN [path |-> customPath, bundled |-> FALSE, source |-> "custom",
          result |-> customPath, cached |-> FALSE]
    ELSE IF getBundledCompilerPath # Null
    THEN [path |-> getBundledCompilerPath, bundled |-> TRUE, source |-> "bundled",
          result |-> getBundledCompilerPath, cached |-> FALSE]
    ELSE IF FirstRunnable # Null
    THEN [path |-> FirstRunnable, bundled |-> FALSE, source |-> "system",
          result |-> FirstRunnable, cached |-> FALSE]
    ELSE [path |-> detectedCompilerPath, bundled |-> isBundledCompiler,
          source |-> "none", result |-> Null, cached |-> FALSE]

setCustomCompilerPath_NoReset(customPath) ==
    IF Truthy(customPath) /\ customPath \in existingFiles
    THEN [path |-> customPath, bundled |-> FALSE, source |-> "custom"]
    ELSE [path |-> detectedCompilerPath, bundled |-> isBundledCompiler,
          source |-> compilerSource]

\* setCustomCompilerPath(customPath): the cache is reset, then set to the
\* custom path when that names an existing file.
setCustomCompilerPath(customPath) ==
    IF Truthy(customPath) /\ customPath \in existingFiles
    THEN [path |-> customPath, bundled |-> FALSE, source |-> "custom"]
    ELSE [path |-> Null, bundled |-> FALSE, source |-> "none"]

\* getCompilerInfo()
getCompilerInfo ==
    [path |-> detectedCompilerPath, source |-> compilerSource]

\* compileCode's command: MSVC is run by its bare path; any other compiler
\* path is quoted when it includes a space.
CompileCmd(compiler, compilerPath) ==
    IF compiler = "cl.exe"
    THEN [text |-> compilerPath, quoted |-> FALSE]
    ELSE [text |-> compilerPath, quoted |-> IncludesSpace(compilerPath)]

\* spawn(cmd, args, {shell: true}): the program the shell runs for a command.
ShellProgram(cmd) ==
    IF cmd.quoted THEN cmd.text ELSE FirstWord(cmd.text)

NoCall == [called |-> FALSE]

\* ipcMain.handle('compiler:detect')
CompilerDetect ==
    /\ UNCHANGED nonDetectVars
    /\ \E customPath \in CustomPaths :
        LET d == detectCompiler(customPath)
        IN  /\ detectedCompilerPath' = d.path
            /\ isBundledCompiler' = d.bundled
            /\ compilerSource' = d.source
            /\ lastDetect' = [called |-> TRUE, customPath |-> customPath,
                              customExisted |-> Truthy(customPath) /\ customPath \in existingFiles,
                              cachedBefore |-> detectedCompilerPath,
                              bundledPath |-> getBundledCompilerPath,
                              firstRunnable |-> FirstRunnable,
                              expected |-> PriorityChoice(customPath),
                              source |-> d.source,
                              result |-> d.result, cached |-> d.cached,
                              firstSinceSet |-> lastSet.called /\ lastSet.detects = 0]
            /\ lastSet' = IF lastSet.called
                          THEN [lastSet EXCEPT !.detects = 1]
                          ELSE lastSet
    /\ UNCHANGED <<existingFiles, runnableCommands, lastCompile>>

\* ipcMain.handle('compiler:set-custom-path')
CompilerSetCustomPath ==
    /\ UNCHANGED nonDetectVars
    /\ \E customPath \in CustomPaths \ {Null} :
        LET s == setCustomCompilerPath(customPath)
        IN  /\ detectedCompilerPath' = s.path
            /\ isBundledCompiler' = s.bundled
            /\ compilerSource' = s.source
            /\ lastSet' = [called |-> TRUE, customPath |-> customPath,
                           existed |-> Truthy(customPath) /\ customPath \in existingFiles,
                           detects |-> 0]
    /\ lastCompile' = NoCall
    /\ UNCHANGED <<existingFiles, runnableCommands, lastDetect>>

\* compileCode up to the spawn of the compiler: detectCompiler(), the
\* compiler path and the command.
CompileCodeSpawn ==
    /\ UNCHANGED nonDetectVars
    /\ LET d == detectCompiler(Null)
           compilerPath == IF Truthy(d.path) THEN d.path ELSE d.result
       IN  /\ detectedCompilerPath' = d.path
           /\ isBundledCompiler' = d.bundled
           /\ compilerSource' = d.source
           /\ lastCompile' =
                IF d.result = Null
                THEN [called |-> TRUE, program |-> Null]
                ELSE [called |-> TRUE,
                      program |-> ShellProgram(CompileCmd(d.result, compilerPath))]
           /\ lastDetect' = [called |-> TRUE, customPath |-> Null,
                             customExisted |-> FALSE,
                             cachedBefore |-> detectedCompilerPath,
                             bundledPath |-> getBundledCompilerPath,
                             firstRunnable |-> FirstRunnable,
                             expected |-> PriorityChoice(Null),
                             source |-> d.source,
                             result |-> d.result, cached |-> d.cached,
                             firstSinceSet |-> lastSet.called /\ lastSet.detects = 0]
           /\ lastSet' = IF lastSet.called
                         THEN [lastSet EXCEPT !.detects = 1]
                         ELSE lastSet
    /\ UNCHANGED <<existingFiles, runnableCommands>>

\* The user's machine changes: a file appears or disappears.
FileSystemChange ==
    /\ UNCHANGED nonDetectVars
    /\ \E f \in AllFiles :
        existingFiles' = IF f \in existingFiles
                         THEN existingFiles \ {f}
                         ELSE existingFiles \cup {f}
    /\ UNCHANGED <<detectedCompilerPath, isBundledCompiler, compilerSource,
                   runnableCommands, lastDetect, lastSet, lastCompile>>

\* The module state at load, on a machine without any compiler.
DetectIdle ==
    /\ detectedCompilerPath = Null
    /\ isBundledCompiler = FALSE
    /\ compilerSource = "none"
    /\ existingFiles = {}
    /\ runnableCommands = {}
    /\ lastDetect = NoCall
    /\ lastSet = NoCall
    /\ lastCompile = NoCall

\* The module state at load, on any machine.
DetectInit ==
    /\ detectedCompilerPath = Null
    /\ isBundledCompiler = FALSE
    /\ compilerSource = "none"
    /\ existingFiles \in SUBSET AllFiles
    /\ runnableCommands \in SUBSET {"g++", "clang++", "cl.exe"}
    /\ lastDetect = NoCall
    /\ lastSet = NoCall
    /\ lastCompile = NoCall

DetectNext ==
    \/ CompilerDetect
    \/ CompilerSetCustomPath
    \/ CompileCodeSpawn
    \/ FileSystemChange

\* What the documented priority names as the source of a choice.
PrioritySource(customPath, customExisted, choice) ==
    IF customExisted THEN "custom"
    ELSE IF choice = Null THEN "none"
    ELSE IF choice \in {"g++", "clang++", "cl.exe"} THEN "system"
    ELSE "bundled"

\* C7 as stated: on every call of detectCompiler(customPath) where customPath
\* names an existing file the call returns customPath, with source 'custom'.
C7_CustomPathOnEveryCall ==
    (lastDetect.called /\ lastDetect.customExisted) =>
        /\ lastDetect.result = lastDetect.customPath
        /\ lastDetect.source = "custom"

\* C7 amended: a call made while no compiler is cached returns the choice of
\* the priority custom path > bundled MinGW > first runnable of g++, clang++,
\* cl.exe, and null only when none is available; a call made while a
\* compiler is cached returns the cached path, whatever customPath is.
C7_PriorityWhenNotCached ==
    lastDetect.called =>
        IF Truthy(lastDetect.cachedBefore)
        THEN lastDetect.result = lastDetect.cachedBefore
        ELSE /\ lastDetect.result = lastDetect.expected
             /\ lastDetect.source =
                  PrioritySource(lastDetect.customPath, lastDetect.customExisted,
                                 lastDetect.expected)
             /\ lastDetect.result = Null <=>
                  /\ ~lastDetect.customExisted
                  /\ lastDetect.bundledPath = Null
                  /\ lastDetect.firstRunnable = Null

\* C7 witness: with nothing cached, a call naming an existing custom file
\* returned it although a bundled compiler and a system g++ were there too.
C7_Witness ==
    /\ lastDetect.called
    /\ ~Truthy(lastDetect.cachedBefore)
    /\ lastDetect.customExisted
    /\ lastDetect.result = lastDetect.customPath
    /\ lastDetect.bundledPath # Null
    /\ lastDetect.firstRunnable = "g++"

Chars == {"a", "é"}

\* U+FFFD, which Buffer.toString() puts in place of an incomplete sequence
ReplacementChar == "U+FFFD"

Texts ==
    UNION {[1..n -> Chars] : n \in 0..MaxText}

\* The UTF-8 bytes of a text, as the compiler writes them to its pipe.
RECURSIVE Utf8(_)
Utf8(text) ==
    IF text = <<>> THEN <<>>
    ELSE (IF Head(text) = "a" THEN <<"61">> ELSE <<"C3", "A9">>) \o Utf8(Tail(text))

\* data.toString() of one 'data' chunk: UTF-8 decoding of that chunk alone,
\* with U+FFFD for a lead byte without its continuation and for a
\* continuation byte without its lead.
RECURSIVE toString(_)
toString(bytes) ==
    IF bytes = <<>> THEN <<>>
    ELSE IF Head(bytes) = "61" THEN <<"a">> \o toString(Tail(bytes))
    ELSE IF Head(bytes) = "C3" /\ Len(bytes) >= 2 /\ bytes[2] = "A9"
         THEN <<"é">> \o toString(SubSeq(bytes, 3, Len(bytes)))
    ELSE <<ReplacementChar>> \o toString(Tail(bytes))

\* The template strings of compileCode and of the process:start handler
\* (without their leading emoji and line breaks).
CompilationErrorPrefix == "Compilation Error:"

ExecutableNotCreated == "Compilation failed: Executable not created"

UnexpectedErrorPrefix == "Unexpected error: "

CompilationFailed == "Compilation failed"

\* err.message of a failed spawn or of a failed mkdirSync / writeFileSync
ErrorMessage == "ENOENT"

Undefined == <<"undefined">>

\* runCompilationProcess, 'close' listener
OnCompilerClose(code, stdout, stderr) ==
    [success |-> code = "0", stdout |-> stdout, stderr |-> stderr, exitCode |-> code]

\* runCompilationProcess, 'error' listener
OnCompilerError(stdout) ==
    [success |-> FALSE, stdout |-> stdout, stderr |-> <<ErrorMessage>>, exitCode |-> "1"]

\* compileCode after the await: cleanup and error on a failed compile or a
\* missing executable, otherwise the executable and its directory.
compileCodeReturn(compileResult, executableExists) ==
    IF ~compileResult.success
    THEN [success |-> FALSE,
          error |-> <<CompilationErrorPrefix>> \o
                    (IF compileResult.stderr # <<>>
                     THEN compileResult.stderr
                     ELSE compileResult.stdout),
          tempDir |-> "removed", hasExecutable |-> FALSE]
    ELSE IF ~executableExists
    THEN [success |-> FALSE, error |-> <<ExecutableNotCreated>>,
          tempDir |-> "removed", hasExecutable |-> FALSE]
    ELSE [success |-> TRUE, error |-> Undefined,
          tempDir |-> "exists", hasExecutable |-> TRUE]

\* compileCode, catch (e): cleanup and the unexpected-error result.
compileCodeCatch ==
    [success |-> FALSE, error |-> <<UnexpectedErrorPrefix, ErrorMessage>>,
     tempDir |-> "removed", hasExecutable |-> FALSE]

\* The process:start handler after compileCode: the error reply, or the
\* call of startInteractiveProcess and the success reply.
processStartReply(compileResult) ==
    IF ~compileResult.success \/ ~compileResult.hasExecutable
    THEN [success |-> FALSE,
          error |-> IF compileResult.error \notin {Undefined, <<>>}
                    THEN compileResult.error
                    ELSE <<CompilationFailed>>,
          startInteractive |-> FALSE]
    ELSE [success |-> TRUE, error |-> Undefined, startInteractive |-> TRUE]

NoEnd == [kind |-> "none", code |-> "null"]

\* compileCode and the handler have not returned yet
NoReturn == [success |-> FALSE, error |-> Undefined, tempDir |-> "none", hasExecutable |-> FALSE]

NoReply == [success |-> FALSE, error |-> Undefined]

\* The exit codes of a process: success, failure, and null for a process
\* that a signal ended.
ExitCodes == {"0", "1", "null"}

\* process:start, compileCode up to the await: the directory and the source
\* file are made and the compiler is spawned; or mkdirSync / writeFileSync
\* throws and the catch block answers.
CompileStart ==
    /\ UNCHANGED nonCompileVars
    /\ compilePhase \in {"idle", "returned"}
    /\ compileStderr' = <<>>
    /\ compileStdout' = <<>>
    /\ compileEnd' = NoEnd
    /\ startCalled' = FALSE
    /\ \/ /\ \E err \in Texts, out \in Texts :
                /\ compilerWrote' = [stderr |-> err, stdout |-> out]
                /\ pipeStderr' = Utf8(err)
                /\ pipeStdout' = Utf8(out)
          /\ compilePhase' = "compiling"
          /\ compileTempDir' = "exists"
          /\ compileReturn' = NoReturn
          /\ startReply' = NoReply
          /\ compileTimer' = "set"
       \/ /\ compilerWrote' = [stderr |-> <<>>, stdout |-> <<>>]
          /\ pipeStderr' = <<>>
          /\ pipeStdout' = <<>>
          /\ compilePhase' = "returned"
          /\ compileTempDir' = compileCodeCatch.tempDir
          /\ compileReturn' = compileCodeCatch
          /\ startReply' = [success |-> FALSE,
                            error |-> processStartReply(compileCodeCatch).error]
          /\ compileTimer' = "none"

\* proc.stderr.on('data'): the next chunk of the pipe, of any length
CompilerStderrData ==
    /\ UNCHANGED nonCompileVars
    /\ compilePhase = "compiling"
    /\ \E n \in 1..Len(pipeStderr) :
        /\ compileStderr' = compileStderr \o toString(SubSeq(pipeStderr, 1, n))
        /\ pipeStderr' = SubSeq(pipeStderr, n + 1, Len(pipeStderr))
    /\ UNCHANGED <<compilePhase, compilerWrote, pipeStdout, compileStdout, compileEnd,
                   compileTempDir, compileReturn, startReply, startCalled, compileTimer>>

\* proc.stdout.on('data')
CompilerStdoutData ==
    /\ UNCHANGED nonCompileVars
    /\ compilePhase = "compiling"
    /\ \E n \in 1..Len(pipeStdout) :
        /\ compileStdout' = compileStdout \o toString(SubSeq(pipeStdout, 1, n))
        /\ pipeStdout' = SubSeq(pipeStdout, n + 1, Len(pipeStdout))
    /\ UNCHANGED <<compilePhase, compilerWrote, pipeStderr, compileStderr, compileEnd,
                   compileTempDir, compileReturn, startReply, startCalled, compileTimer>>

\* What follows the end of the compiler in one turn of the event loop:
\* clearTimeout(timer), runCompilationProcess resolves, compileCode returns,
\* the handler replies.
CompileFinish(end, compileResult, executableExists) ==
    LET ret == compileCodeReturn(compileResult, executableExists)
        reply == processStartReply(ret)
    IN  /\ compileEnd' = end
        /\ compileTimer' = "none"
        /\ compilePhase' = "returned"
        /\ compileTempDir' = ret.tempDir
        /\ compileReturn' = ret
        /\ startReply' = [success |-> reply.success, error |-> reply.error]
        /\ startCalled' = reply.startInteractive

\* The callback of the 30 s timer: proc.kill(). proc is the shell of
\* shell: true; the signal ends the compiler where the shell has replaced
\* itself by it, and only the shell where the compiler is its child.
CompileTimeout ==
    /\ UNCHANGED nonCompileVars
    /\ compilePhase = "compiling"
    /\ compileTimer = "set"
    /\ compileTimer' \in {"compiler", "shell"}
    /\ UNCHANGED <<compilePhase, compilerWrote, pipeStderr, pipeStdout, compileStderr,
                   compileStdout, compileEnd, compileTempDir, compileReturn, startReply,
                   startCalled>>

\* proc.on('close') after proc.kill() has ended the compiler: the pipes are
\* closed and drained, the code is null.
CompilerKilledClose ==
    /\ UNCHANGED nonCompileVars
    /\ compilePhase = "compiling"
    /\ compileTimer = "compiler"
    /\ pipeStderr = <<>>
    /\ pipeStdout = <<>>
    /\ CompileFinish([kind |-> "close", code |-> "null"],
                     OnCompilerClose("null", compileStdout, compileStderr),
                     FALSE)
    /\ UNCHANGED <<compilerWrote, pipeStderr, pipeStdout, compileStderr, compileStdout>>

\* proc.on('close'): the compiler has ended by itself and both pipes are
\* drained. code is the exit code, or null when a signal ended the process
\* (the shell that proc.kill() has ended, too).
CompilerClose ==
    /\ UNCHANGED nonCompileVars
    /\ compilePhase = "compiling"
    /\ compileTimer # "compiler"
    /\ pipeStderr = <<>>
    /\ pipeStdout = <<>>
    /\ \E code \in ExitCodes, executableExists \in BOOLEAN :
        /\ compileTimer = "shell" => code = "null"
        /\ CompileFinish([kind |-> "close", code |-> code],
                      OnCompilerClose(code, compileStdout, compileStderr),
                      executableExists)
    /\ UNCHANGED <<compilerWrote, pipeStderr, pipeStdout, compileStderr, compileStdout>>

\* proc.on('error'): the compiler could not be spawned.
CompilerSpawnError ==
    /\ UNCHANGED nonCompileVars
    /\ compilePhase = "compiling"
    /\ compileTimer = "set"
    /\ compilerWrote = [stderr |-> <<>>, stdout |-> <<>>]
    /\ CompileFinish([kind |-> "error", code |-> "1"], OnCompilerError(compileStdout), FALSE)
    /\ UNCHANGED <<compilerWrote, pipeStderr, pipeStdout, compileStderr, compileStdout>>

CompileIdle ==
    /\ compilePhase = "idle"
    /\ compilerWrote = [stderr |-> <<>>, stdout |-> <<>>]
    /\ pipeStderr = <<>>
    /\ pipeStdout = <<>>
    /\ compileStderr = <<>>
    /\ compileStdout = <<>>
    /\ compileEnd = NoEnd
    /\ compileTempDir = "none"
    /\ compileReturn = NoReturn
    /\ startReply = NoReply
    /\ startCalled = FALSE
    /\ compileTimer = "none"

\* The event loop runs the callbacks that are due: the timer, the data of
\* the pipes, the close of a process that has ended. Nothing makes a
\* compiler end that proc.kill() has not reached.
CompileFairness ==
    /\ WF_vars(CompileTimeout)
    /\ WF_vars(CompilerStderrData)
    /\ WF_vars(CompilerStdoutData)
    /\ WF_vars(CompilerKilledClose)

CompileNext ==
    \/ CompileStart
    \/ CompileTimeout
    \/ CompilerKilledClose
    \/ CompilerStderrData
    \/ CompilerStdoutData
    \/ CompilerClose
    \/ CompilerSpawnError

\* s occurs in t as a contiguous part
Contains(t, s) ==
    \E i \in 0..(Len(t) - Len(s)) : SubSeq(t, i + 1, i + Len(s)) = s

\* The compiler process ended with a non-zero exit code.
CompilerFailed ==
    /\ compilePhase = "returned"
    /\ compileEnd.kind = "close"
    /\ compileEnd.code \notin {"0", "null"}

\* C5: whenever the compiler ends with a non-zero exit code, compileCode
\* returns success=false with an error that contains the compiler's stderr
\* unchanged (its stdout when stderr is empty), and the process:start handler
\* returns that error without calling startInteractiveProcess.
C5_RawCompilerText ==
    CompilerFailed =>
        /\ compileReturn.success = FALSE
        /\ Contains(compileReturn.error,
                    IF compilerWrote.stderr # <<>>
                    THEN compilerWrote.stderr
                    ELSE compilerWrote.stdout)
        /\ startReply = [success |-> FALSE, error |-> compileReturn.error]
        /\ ~startCalled

\* C21: a compiler that has not finished after 30 seconds is killed and
\* compileCode then returns success=false; the promise of compileCode
\* resolves in every case: compiler exit, spawn error, timeout.
C21_CompileCodeAlwaysResolves ==
    /\ []((compilePhase = "returned" /\ compileEnd = [kind |-> "close", code |-> "null"])
            => ~compileReturn.success)
    /\ (compilePhase = "compiling" ~> compilePhase = "returned")

\* ================================================= runs of the user's program
Runs == 1..MaxRuns

\* A message on the channel from the main process to the renderer: a
\* webContents.send of process:stdout / process:stderr / process:exit, or
\* the reply to an ipcRenderer.invoke.
Msg(type, run, data, ok, code) ==
    [type |-> type, run |-> run, data |-> data, ok |-> ok, code |-> code]

\* The ways a compilation can end, for the runs: compiled, compiled without
\* an executable, compiler error, compiler not spawned.
CompileOutcomes ==
    {[result |-> OnCompilerClose("0", <<>>, <<>>), executableExists |-> TRUE],
     [result |-> OnCompilerClose("0", <<>>, <<>>), executableExists |-> FALSE],
     [result |-> OnCompilerClose("1", <<>>, <<"a">>), executableExists |-> FALSE],
     [result |-> OnCompilerError(<<>>), executableExists |-> FALSE]}

\* killProcess(): SIGTERM to currentProcess, if there is one
killProcess ==
    IF currentProcess # 0
    THEN [signalled EXCEPT ![currentProcess] = TRUE]
    ELSE signalled

\* code || 0
CodeOrZero(code) ==
    IF code = "null" THEN "0" ELSE code

\* App.tsx state before any run: compilationResult is null
NoResult == [shown |-> FALSE, success |-> FALSE, output |-> <<>>]

\* handleRun from setIsCompiling(true) to the await of startProcess, and the
\* process:start handler up to its await: compileCode finds no compiler, or
\* throws before the compiler is spawned, or creates the temporary directory
\* and spawns the compiler. `queue` is the channel before the call.
InvokeProcessStart(queue) ==
    LET r == runCount + 1
    IN  /\ isCompiling' = TRUE
        /\ compilationResult' = NoResult
        /\ shownRun' = 0
        /\ handleRunPhase' = "awaitStart"
        /\ runCount' = r
        /\ \/ /\ handler' = [handler EXCEPT ![r] = "compiling"]
              /\ tempDir' = [tempDir EXCEPT ![r] = "exists"]
              /\ ipc' = queue
           \/ /\ handler' = [handler EXCEPT ![r] = "failed"]
              /\ tempDir' = [tempDir EXCEPT ![r] = compileCodeCatch.tempDir]
              /\ ipc' = Append(queue, Msg("startReply", r, <<>>,
                                          processStartReply(compileCodeCatch).success, "null"))
           \/ /\ handler' = [handler EXCEPT ![r] = "failed"]
              /\ tempDir' = tempDir
              /\ ipc' = Append(queue, Msg("startReply", r, <<>>, FALSE, "null"))

\* handleRun (Run button, F5): with isRunning it first awaits stopProcess,
\* whose handler calls killProcess(); then it starts the run.
RendererHandleRun ==
    /\ UNCHANGED nonRunVars
    /\ handleRunPhase = "idle"
    /\ runCount < MaxRuns
    /\ IF isRunning
       THEN /\ signalled' = killProcess
            /\ ipc' = Append(ipc, Msg("stopReply", 0, <<>>, TRUE, "null"))
            /\ handleRunPhase' = "awaitStop"
            /\ UNCHANGED <<runCount, handler, tempDir, isCompiling, compilationResult,
                           shownRun>>
       ELSE /\ InvokeProcessStart(ipc)
            /\ UNCHANGED signalled
    /\ UNCHANGED <<proc, cleanupTimer, exitCodes, closeCode, emitted, bytesLeft, currentProcess, isRunning, inputs>>

\* handleStop (Stop button): await stopProcess(), then setIsRunning(false)
RendererHandleStop ==
    /\ UNCHANGED nonRunVars
    /\ handleRunPhase = "idle"
    /\ isRunning
    /\ signalled' = killProcess
    /\ ipc' = Append(ipc, Msg("stopReply", 0, <<>>, TRUE, "null"))
    /\ handleRunPhase' = "awaitStopOnly"
    /\ UNCHANGED <<runCount, handler, tempDir, proc, cleanupTimer, exitCodes, closeCode, emitted, bytesLeft,
                   bytesLeft, currentProcess, isRunning, isCompiling, compilationResult, shownRun,
                   inputs>>

\* handleInput: writeProcess(data), and the input is appended to the output
RendererHandleInput ==
    /\ UNCHANGED nonRunVars
    /\ isRunning
    /\ inputs < MaxInputs
    /\ inputs' = inputs + 1
    /\ compilationResult' =
          [compilationResult EXCEPT
              !.shown = TRUE,
              !.output = Append(@, [run |-> 0, data |-> <<>>])]
    /\ UNCHANGED <<mainRunVars, ipc, handleRunPhase, isRunning, isCompiling, shownRun>>

\* The renderer takes the next message of the channel: a process:stdout,
\* process:stderr or process:exit listener of App.tsx runs, or the awaited
\* invoke of handleRun / handleStop resumes.
RendererReceive ==
    /\ UNCHANGED nonRunVars
    /\ ipc # <<>>
    /\ LET m == Head(ipc)
       IN  CASE m.type = "stdout" ->
                  /\ compilationResult' =
                        [shown |-> TRUE, success |-> TRUE,
                         output |-> Append(compilationResult.output,
                                           [run |-> m.run, data |-> m.data])]
                  /\ ipc' = Tail(ipc)
                  /\ UNCHANGED <<mainRunVars, handleRunPhase, isRunning, isCompiling,
                                 shownRun, inputs>>
             [] m.type = "stderr" ->
                  /\ compilationResult' = [compilationResult EXCEPT !.shown = TRUE]
                  /\ ipc' = Tail(ipc)
                  /\ UNCHANGED <<mainRunVars, handleRunPhase, isRunning, isCompiling,
                                 shownRun, inputs>>
             [] m.type = "exit" ->
                  /\ isRunning' = FALSE
                  /\ compilationResult' =
                        [compilationResult EXCEPT !.shown = TRUE,
                                                  !.success = (m.code = "0")]
                  /\ ipc' = Tail(ipc)
                  /\ UNCHANGED <<mainRunVars, handleRunPhase, isCompiling, shownRun, inputs>>
             [] m.type = "stopReply" /\ handleRunPhase = "awaitStop" ->
                  /\ InvokeProcessStart(Tail(ipc))
                  /\ UNCHANGED <<proc, signalled, cleanupTimer, exitCodes, closeCode, emitted, bytesLeft,
                                 currentProcess, isRunning, inputs>>
             [] m.type = "stopReply" /\ handleRunPhase # "awaitStop" ->
                  /\ isRunning' = FALSE
                  /\ handleRunPhase' = "idle"
                  /\ ipc' = Tail(ipc)
                  /\ UNCHANGED <<mainRunVars, isCompiling, compilationResult, shownRun,
                                 inputs>>
             [] m.type = "startReply" ->
                  /\ isCompiling' = FALSE
                  /\ handleRunPhase' = "idle"
                  /\ isRunning' = IF m.ok THEN TRUE ELSE isRunning
                  /\ compilationResult' =
                        [shown |-> TRUE, success |-> m.ok, output |-> <<>>]
                  /\ shownRun' = IF m.ok THEN m.run ELSE 0
                  /\ ipc' = Tail(ipc)
                  /\ UNCHANGED <<mainRunVars, inputs>>

\* spawn(cmd, [], options): the child runs, or it could not be spawned and
\* an 'error' event is on its way.
spawn ==
    {"alive", "failing"}

\* The process:start handler resumes when the compiler has ended: compileCode
\* returns, and on success startInteractiveProcess spawns the program and
\* sets currentProcess; the handler replies.
CompileDone(r) ==
    /\ UNCHANGED nonRunVars
    /\ handler[r] = "compiling"
    /\ \E o \in CompileOutcomes :
        LET ret == compileCodeReturn(o.result, o.executableExists)
            reply == processStartReply(ret)
        IN  /\ tempDir' = [tempDir EXCEPT ![r] = ret.tempDir]
            /\ ipc' = Append(ipc, Msg("startReply", r, <<>>, reply.success, "null"))
            /\ IF reply.startInteractive
               THEN /\ handler' = [handler EXCEPT ![r] = "started"]
                    /\ currentProcess' = r
                    /\ \E state \in spawn : proc' = [proc EXCEPT ![r] = state]
               ELSE /\ handler' = [handler EXCEPT ![r] = "failed"]
                    /\ UNCHANGED <<currentProcess, proc>>
    /\ UNCHANGED <<runCount, signalled, cleanupTimer, exitCodes, closeCode, emitted, bytesLeft, rendererVars>>

\* The bytes a program that has written `written` can write next, as one
\* chunk of its stdout pipe: the program writes UTF-8 text, and the pipe
\* may hand over a two-byte character whole or byte by byte.
NextChunks(written) ==
    IF written # <<>> /\ toString(written)[Len(toString(written))] = ReplacementChar
    THEN {<<"A9">>}
    ELSE {<<"61">>, <<"C3">>, <<"C3", "A9">>}

\* currentProcess.stdout.on('data') of run r: onStdout(data.toString())
\* sends process:stdout
ProgramStdout(r) ==
    /\ UNCHANGED nonRunVars
    /\ proc[r] = "alive"
    /\ \E data \in NextChunks(emitted[r]) :
        /\ Len(data) <= bytesLeft
        /\ bytesLeft' = bytesLeft - Len(data)
        /\ emitted' = [emitted EXCEPT ![r] = @ \o data]
        /\ ipc' = Append(ipc, Msg("stdout", r, toString(data), TRUE, "null"))
    /\ UNCHANGED <<runCount, handler, tempDir, proc, signalled, cleanupTimer, exitCodes, closeCode,
                   currentProcess, rendererVars>>

\* The codes the 'close' event of run r can carry: an exit code of the
\* program, null when the signal ended it, the negative errno after a
\* failed spawn.
CloseCodes(r) ==
    IF proc[r] = "errored" THEN {"-2"}
    ELSE IF signalled[r] THEN {"0", "1", "null"}
    ELSE {"0", "1"}

OnClose_NoCleanup(r) ==
    [currentProcess |-> 0, cleanupTimer |-> cleanupTimer]

\* The 'close' listener of run r: currentProcess = null and the cleanup
\* timer of 500 ms is set.
OnClose(r) ==
    [currentProcess |-> 0, cleanupTimer |-> [cleanupTimer EXCEPT ![r] = TRUE]]

\* currentProcess.on('close') of run r: the program has ended (or could not
\* be spawned) and its pipes are closed.
ProgramClose(r) ==
    /\ UNCHANGED nonRunVars
    /\ proc[r] \in {"alive", "errored"}
    /\ \E code \in CloseCodes(r) :
        /\ exitCodes' = [exitCodes EXCEPT ![r] = Append(@, CodeOrZero(code))]
        /\ closeCode' = [closeCode EXCEPT ![r] = code]
        /\ ipc' = Append(ipc, Msg("exit", r, <<>>, TRUE, CodeOrZero(code)))
    /\ proc' = [proc EXCEPT ![r] = "closed"]
    /\ currentProcess' = OnClose(r).currentProcess
    /\ cleanupTimer' = OnClose(r).cleanupTimer
    /\ UNCHANGED <<runCount, handler, tempDir, signalled, emitted, bytesLeft, rendererVars>>

\* currentProcess.on('error') of run r: the spawn failed
ProgramSpawnError(r) ==
    /\ UNCHANGED nonRunVars
    /\ proc[r] = "failing"
    /\ proc' = [proc EXCEPT ![r] = "errored"]
    /\ currentProcess' = 0
    /\ exitCodes' = [exitCodes EXCEPT ![r] = Append(@, "1")]
    /\ UNCHANGED closeCode
    /\ ipc' = ipc \o <<Msg("stderr", r, <<>>, TRUE, "null"), Msg("exit", r, <<>>, TRUE, "1")>>
    /\ UNCHANGED <<runCount, handler, tempDir, signalled, cleanupTimer, emitted, bytesLeft,
                   rendererVars>>

\* The cleanup timer of run r fires: rmSync(tempDir) if it exists
CleanupTimerFires(r) ==
    /\ UNCHANGED nonRunVars
    /\ cleanupTimer[r]
    /\ cleanupTimer' = [cleanupTimer EXCEPT ![r] = FALSE]
    /\ tempDir' = [tempDir EXCEPT ![r] = IF @ = "exists" THEN "removed" ELSE @]
    /\ UNCHANGED <<runCount, handler, proc, signalled, exitCodes, closeCode, emitted, bytesLeft, currentProcess,
                   ipc, rendererVars>>

RunIdle ==
    /\ runCount = 0
    /\ handler = [r \in Runs |-> "none"]
    /\ tempDir = [r \in Runs |-> "none"]
    /\ proc = [r \in Runs |-> "none"]
    /\ signalled = [r \in Runs |-> FALSE]
    /\ cleanupTimer = [r \in Runs |-> FALSE]
    /\ exitCodes = [r \in Runs |-> <<>>]
    /\ closeCode = [r \in Runs |-> "none"]
    /\ emitted = [r \in Runs |-> <<>>]
    /\ currentProcess = 0
    /\ ipc = <<>>
    /\ handleRunPhase = "idle"
    /\ isRunning = FALSE
    /\ isCompiling = FALSE
    /\ compilationResult = NoResult
    /\ shownRun = 0
    /\ inputs = 0

RunNext ==
    \/ RendererHandleRun
    \/ RendererHandleStop
    \/ RendererHandleInput
    \/ RendererReceive
    \/ \E r \in Runs : CompileDone(r)
    \/ \E r \in Runs : ProgramStdout(r)
    \/ \E r \in Runs : ProgramClose(r)
    \/ \E r \in Runs : ProgramSpawnError(r)
    \/ \E r \in Runs : CleanupTimerFires(r)

\* What the event loop guarantees: a pending compilation ends (the compiler
\* is killed after 30 s), a pending 'error' event and the 'close' event that
\* follows it are delivered, a set timer fires, a sent message is received.
\* Nothing makes the user's program end, and nothing makes the user act.
RunFairness ==
    /\ WF_vars(RendererReceive)
    /\ \A r \in Runs :
        /\ WF_vars(CompileDone(r))
        /\ WF_vars(ProgramSpawnError(r))
        /\ WF_vars(proc[r] = "errored" /\ ProgramClose(r))
        /\ WF_vars(CleanupTimerFires(r))

\* C1: at most one program spawned by startInteractiveProcess is alive.
C1_AtMostOneProgramAlive ==
    Cardinality({r \in Runs : proc[r] = "alive"}) <= 1

C4_EveryRunReportsExit ==
    \A r \in Runs : (proc[r] = "alive") ~> (exitCodes[r] # <<>>)

\* The text of the items of an output panel, one after the other.
RECURSIVE Shown(_)
Shown(output) ==
    IF output = <<>> THEN <<>> ELSE Head(output).data \o Shown(Tail(output))

\* The bytes of a whole number of characters
WholeCharacters(bytes) ==
    \A i \in DOMAIN toString(bytes) : toString(bytes)[i] # ReplacementChar

\* C6: the output shown for a run is what that run's program has written to
\* its stdout, in order and once: no chunk of another run's program is in
\* it, and once all sent chunks have arrived the shown text is the text the
\* program has written.
C6_OutputIsTheRunsStdout ==
    shownRun # 0 =>
        /\ \A i \in DOMAIN compilationResult.output :
              compilationResult.output[i].run \in {0, shownRun}
        /\ ((\A k \in DOMAIN ipc : ~(ipc[k].type = "stdout" /\ ipc[k].run = shownRun))
               /\ WholeCharacters(emitted[shownRun]))
              => Shown(compilationResult.output) = toString(emitted[shownRun])

\* C14: while a program started by startInteractiveProcess is alive,
\* currentProcess refers to it (killProcess and writeToProcess reach it);
\* with a new run started before the previous one has closed, it refers to
\* the program of the new run.
C14_CurrentProcessIsTheAliveProgram ==
    \A r \in Runs :
        (proc[r] = "alive" /\ \A q \in Runs : q > r => proc[q] = "none")
            => currentProcess = r

\* C23: the exit code handed to onExit at the 'close' of a run's program,
\* which is the code of its process:exit message, is 0 only if the program
\* exited normally with status 0; a program ended by a signal (killProcess)
\* is not reported with exit code 0.
C23_ExitCodeZeroOnlyAfterNormalExit ==
    /\ \A r \in Runs :
          closeCode[r] # "none" =>
              (exitCodes[r][Len(exitCodes[r])] = "0" => closeCode[r] = "0")
    /\ \A k \in DOMAIN ipc :
          (ipc[k].type = "exit" /\ ipc[k].code = "0") => closeCode[ipc[k].run] = "0"

\* ====================================================== compileAndRun
\* compileAndRun (compiler.ts, "legacy wrapper"): compileCode, then the
\* program is started with startInteractiveProcess and callbacks that
\* collect its output; the promise resolves at the first onExit.
LegacyRun == MaxRuns + 1

\* The pieces of text a program writes to a pipe in one chunk
LegacyChunks == {<<"a">>, <<"b">>}

SpawnErrorText == "Spawn Error: "

ProgramExitedWithCode == "Program exited with code "

RuntimeErrorPrefix == "Runtime Error:"

NoLegacyReturn == [returned |-> FALSE, success |-> FALSE, output |-> <<>>, error |-> <<>>]

\* compileAndRun after `await compileCode`: the failure result
compileAndRunFailure(compileRes) ==
    [returned |-> TRUE, success |-> FALSE, output |-> <<>>,
     error |-> IF compileRes.error \notin {Undefined, <<>>}
               THEN compileRes.error
               ELSE <<CompilationFailed>>]

\* The onExit callback of compileAndRun: the value the promise is resolved
\* with, from the code handed over and the text collected so far.
compileAndRunOnExit(code, stdout, stderr) ==
    LET error == IF code # "0" /\ stdout = <<>> /\ stderr = <<>>
                 THEN <<ProgramExitedWithCode, code>>
                 ELSE stderr
    IN  [returned |-> TRUE,
         success |-> (code = "0" \/ stdout # <<>>),
         output |-> stdout,
         error |-> IF error # <<>> THEN <<RuntimeErrorPrefix>> \o error ELSE <<>>]

\* resolve(value): only the first call settles the promise
resolveLegacy(value) ==
    IF legacyReturn.returned THEN legacyReturn ELSE value

\* ipcMain.handle('compiler:run'): compileAndRun is called and waits for
\* compileCode, which makes the temporary directory and runs the compiler.
LegacyCompileAndRun ==
    /\ UNCHANGED nonLegacyVars
    /\ legacyPhase = "idle"
    /\ legacyPhase' = "compiling"
    /\ legacyTempDir' = "exists"
    /\ UNCHANGED <<currentProcess, legacyProc, legacySignalled, legacyCleanupTimer,
                   legacyStdout, legacyStderr, legacyCloseCode, legacyReturn>>

\* compileAndRun resumes when compileCode has returned: the failure result,
\* or startInteractiveProcess spawns the program and sets currentProcess.
LegacyCompileDone ==
    /\ UNCHANGED nonLegacyVars
    /\ legacyPhase = "compiling"
    /\ \E o \in CompileOutcomes :
        LET compileRes == compileCodeReturn(o.result, o.executableExists)
        IN  /\ legacyTempDir' = compileRes.tempDir
            /\ IF ~compileRes.success \/ ~compileRes.hasExecutable
               THEN /\ legacyPhase' = "returned"
                    /\ legacyReturn' = compileAndRunFailure(compileRes)
                    /\ UNCHANGED <<currentProcess, legacyProc>>
               ELSE /\ legacyPhase' = "running"
                    /\ currentProcess' = LegacyRun
                    /\ \E state \in spawn : legacyProc' = state
                    /\ UNCHANGED legacyReturn
    /\ UNCHANGED <<legacySignalled, legacyCleanupTimer, legacyStdout, legacyStderr,
                   legacyCloseCode>>

\* currentProcess.stdout.on('data'): (data) => stdout += data
LegacyStdout ==
    /\ UNCHANGED nonLegacyVars
    /\ legacyProc = "alive"
    /\ Len(legacyStdout) + Len(legacyStderr) < MaxLegacyText
    /\ \E data \in LegacyChunks : legacyStdout' = legacyStdout \o data
    /\ UNCHANGED <<currentProcess, legacyPhase, legacyTempDir, legacyProc, legacySignalled,
                   legacyCleanupTimer, legacyStderr, legacyCloseCode, legacyReturn>>

\* currentProcess.stderr.on('data'): (data) => stderr += data
LegacyStderr ==
    /\ UNCHANGED nonLegacyVars
    /\ legacyProc = "alive"
    /\ Len(legacyStdout) + Len(legacyStderr) < MaxLegacyText
    /\ \E data \in LegacyChunks : legacyStderr' = legacyStderr \o data
    /\ UNCHANGED <<currentProcess, legacyPhase, legacyTempDir, legacyProc, legacySignalled,
                   legacyCleanupTimer, legacyStdout, legacyCloseCode, legacyReturn>>

\* ipcMain.handle('process:stop') while the program runs: killProcess()
LegacyKill ==
    /\ UNCHANGED nonLegacyVars
    /\ currentProcess = LegacyRun
    /\ ~legacySignalled
    /\ legacySignalled' = TRUE
    /\ UNCHANGED <<currentProcess, legacyPhase, legacyTempDir, legacyProc, legacyCleanupTimer,
                   legacyStdout, legacyStderr, legacyCloseCode, legacyReturn>>

\* The codes Node can hand to the 'close' listener of the program
LegacyCloseCodes ==
    IF legacyProc = "errored" THEN {"-2"}
    ELSE IF legacySignalled THEN {"0", "1", "null"}
    ELSE {"0", "1"}

\* currentProcess.on('close'): currentProcess = null, onExit(code || 0), and
\* the cleanup timer of 500 ms is set.
LegacyClose ==
    /\ UNCHANGED nonLegacyVars
    /\ legacyProc \in {"alive", "errored"}
    /\ \E code \in LegacyCloseCodes :
        /\ legacyCloseCode' = code
        /\ legacyReturn' =
              resolveLegacy(compileAndRunOnExit(CodeOrZero(code), legacyStdout, legacyStderr))
    /\ legacyProc' = "closed"
    /\ legacyPhase' = "returned"
    /\ currentProcess' = 0
    /\ legacyCleanupTimer' = TRUE
    /\ UNCHANGED <<legacyTempDir, legacySignalled, legacyStdout, legacyStderr>>

\* currentProcess.on('error'): onStderr('Spawn Error: ...'),
\* currentProcess = null, onExit(1)
LegacySpawnError ==
    /\ UNCHANGED nonLegacyVars
    /\ legacyProc = "failing"
    /\ legacyProc' = "errored"
    /\ legacyStderr' = legacyStderr \o <<SpawnErrorText>>
    /\ currentProcess' = 0
    /\ legacyReturn' =
          resolveLegacy(compileAndRunOnExit("1", legacyStdout, legacyStderr \o <<SpawnErrorText>>))
    /\ legacyPhase' = "returned"
    /\ UNCHANGED <<legacyTempDir, legacySignalled, legacyCleanupTimer, legacyStdout,
                   legacyCloseCode>>

\* The cleanup timer fires: rmSync(tempDir) if it exists
LegacyCleanupTimerFires ==
    /\ UNCHANGED nonLegacyVars
    /\ legacyCleanupTimer
    /\ legacyCleanupTimer' = FALSE
    /\ legacyTempDir' = IF legacyTempDir = "exists" THEN "removed" ELSE legacyTempDir
    /\ UNCHANGED <<currentProcess, legacyPhase, legacyProc, legacySignalled, legacyStdout,
                   legacyStderr, legacyCloseCode, legacyReturn>>

LegacyIdle ==
    /\ legacyPhase = "idle"
    /\ legacyTempDir = "none"
    /\ legacyProc = "none"
    /\ legacySignalled = FALSE
    /\ legacyCleanupTimer = FALSE
    /\ legacyStdout = <<>>
    /\ legacyStderr = <<>>
    /\ legacyCloseCode = "none"
    /\ legacyReturn = NoLegacyReturn

LegacyNext ==
    \/ LegacyCompileAndRun
    \/ LegacyCompileDone
    \/ LegacyStdout
    \/ LegacyStderr
    \/ LegacyKill
    \/ LegacyClose
    \/ LegacySpawnError
    \/ LegacyCleanupTimerFires

\* C22: whenever the user's program ends with a non-zero exit code,
\* compileAndRun returns success = false.
C22_NonZeroExitIsFailure ==
    (legacyReturn.returned /\ legacyCloseCode \notin {"none", "null", "0"})
        => ~legacyReturn.success

\* ================================================================ file tabs
TabIds == 1..MaxTabs

\* What an editor buffer or a file can hold
Contents == {"int main(){}", "int main(){return 0;}"}

\* DEFAULT_CODE
DefaultCode == "int main(){}"

SavePaths == {"a.cpp", "b.cpp"}

NoTab == [open |-> FALSE, filePath |-> Null, content |-> DefaultCode, isDirty |-> FALSE]

NoSave == [pending |-> FALSE, tab |-> 0, content |-> DefaultCode, filePath |-> Null,
           success |-> FALSE]

NotOnFile == [content |-> DefaultCode, changed |-> FALSE]

\* createNewTab: an untitled tab with the template, not dirty, made active
createNewTab ==
    [open |-> TRUE, filePath |-> Null, content |-> DefaultCode, isDirty |-> FALSE]

\* openFile, the branch that makes a tab for the file
openFile(filePath, content) ==
    [open |-> TRUE, filePath |-> filePath, content |-> content, isDirty |-> FALSE]

\* updateTabContent, the function applied to the tab with the given id
updateTabContent(tab, content) ==
    LET isDirty == content # tab.content \/ tab.isDirty
    IN  [tab EXCEPT !.content = content,
                    !.isDirty = IF tab.filePath # Null
                                THEN content # tab.content
                                ELSE isDirty]

\* markTabSaved, the function applied to the tab with the given id
markTabSaved(tab, filePath) ==
    [tab EXCEPT !.filePath = filePath, !.isDirty = FALSE]

\* handleNewFile
HandleNewFile ==
    /\ UNCHANGED nonTabsVars
    /\ tabCount < MaxTabs
    /\ tabCount' = tabCount + 1
    /\ tabs' = [tabs EXCEPT ![tabCount + 1] = createNewTab]
    /\ activeTabId' = tabCount + 1
    /\ onFile' = [onFile EXCEPT ![tabCount + 1] = NotOnFile]
    /\ UNCHANGED saveInFlight

\* handleOpenFile after the dialog: the file's tab is made active if there
\* is one, otherwise a tab with the file's content is made.
HandleOpenFile ==
    /\ UNCHANGED nonTabsVars
    /\ \E filePath \in SavePaths, content \in Contents :
        IF \E t \in TabIds : tabs[t].open /\ tabs[t].filePath = filePath
        THEN /\ activeTabId' =
                  CHOOSE t \in TabIds :
                      /\ tabs[t].open /\ tabs[t].filePath = filePath
                      /\ \A u \in TabIds :
                            (tabs[u].open /\ tabs[u].filePath = filePath) => t <= u
             /\ UNCHANGED <<tabs, tabCount, onFile>>
        ELSE /\ tabCount < MaxTabs
             /\ tabCount' = tabCount + 1
             /\ tabs' = [tabs EXCEPT ![tabCount + 1] = openFile(filePath, content)]
             /\ activeTabId' = tabCount + 1
             /\ onFile' = [onFile EXCEPT ![tabCount + 1] =
                              [content |-> content, changed |-> FALSE]]
    /\ UNCHANGED saveInFlight

\* handleCodeChange: the editor reports the buffer after an edit
HandleCodeChange ==
    /\ UNCHANGED nonTabsVars
    /\ activeTabId # 0
    /\ tabs[activeTabId].open
    /\ \E value \in Contents :
        /\ value # tabs[activeTabId].content
        /\ tabs' = [tabs EXCEPT ![activeTabId] = updateTabContent(@, value)]
        /\ onFile' = [onFile EXCEPT ![activeTabId].changed = TRUE]
    /\ UNCHANGED <<activeTabId, tabCount, saveInFlight>>

\* switchToTab
SwitchToTab ==
    /\ UNCHANGED nonTabsVars
    /\ \E tabId \in TabIds :
        /\ tabs[tabId].open
        /\ tabId # activeTabId
        /\ activeTabId' = tabId
    /\ UNCHANGED <<tabs, tabCount, saveInFlight, onFile>>

\* closeTab: the tab is removed; the tab that takes its place, or the last
\* one, becomes active.
CloseTab ==
    /\ UNCHANGED nonTabsVars
    /\ \E tabId \in TabIds :
        /\ tabs[tabId].open
        /\ tabs' = [tabs EXCEPT ![tabId] = NoTab]
        /\ LET rest == {t \in TabIds : tabs[t].open /\ t # tabId}
               after == {t \in rest : t > tabId}
           IN  activeTabId' =
                  IF activeTabId # tabId THEN activeTabId
                  ELSE IF rest = {} THEN 0
                  ELSE IF after # {} THEN CHOOSE t \in after : \A u \in after : t <= u
                  ELSE CHOOSE t \in rest : \A u \in rest : u <= t
    /\ UNCHANGED <<tabCount, saveInFlight, onFile>>

\* handleSave / handleSaveAs up to the await: saveFile is invoked with the
\* active tab's content; dialog:save-file asks for a path when none is given
\* (handleSaveAs never gives one), writes the file and answers, or answers
\* null when the dialog is cancelled or the write fails.
HandleSave ==
    /\ UNCHANGED nonTabsVars
    /\ ~saveInFlight.pending
    /\ activeTabId # 0
    /\ tabs[activeTabId].open
    /\ \E filePath \in SavePaths, success \in BOOLEAN :
        /\ saveInFlight' = [pending |-> TRUE, tab |-> activeTabId,
                            content |-> tabs[activeTabId].content,
                            filePath |-> filePath, success |-> success]
    /\ UNCHANGED <<tabs, activeTabId, tabCount, onFile>>

\* handleSave / handleSaveAs after the await: markTabSaved if saveFile
\* answered with success
SaveReturns ==
    /\ UNCHANGED nonTabsVars
    /\ saveInFlight.pending
    /\ saveInFlight' = NoSave
    /\ IF saveInFlight.success /\ tabs[saveInFlight.tab].open
       THEN /\ tabs' = [tabs EXCEPT ![saveInFlight.tab] =
                           markTabSaved(@, saveInFlight.filePath)]
            /\ onFile' = [onFile EXCEPT ![saveInFlight.tab] =
                             [content |-> saveInFlight.content, changed |-> FALSE]]
       ELSE UNCHANGED <<tabs, onFile>>
    /\ UNCHANGED <<activeTabId, tabCount>>

TabsIdle ==
    /\ tabs = [t \in TabIds |-> NoTab]
    /\ activeTabId = 0
    /\ tabCount = 0
    /\ saveInFlight = NoSave
    /\ onFile = [t \in TabIds |-> NotOnFile]

TabsNext ==
    \/ HandleNewFile
    \/ HandleOpenFile
    \/ HandleCodeChange
    \/ SwitchToTab
    \/ CloseTab
    \/ HandleSave
    \/ SaveReturns

\* C11: a tab with a file path is dirty exactly when its content differs
\* from the content last loaded from or saved to the file; an untitled tab
\* is dirty exactly from its first content change on.
C11_DirtyExactlyWhenContentDiffers ==
    \A t \in TabIds :
        tabs[t].open =>
            IF tabs[t].filePath # Null
            THEN tabs[t].isDirty <=> (tabs[t].content # onFile[t].content)
            ELSE tabs[t].isDirty <=> onFile[t].changed

\* ============================================================ the debugger
\* electron/debugger.ts: DebuggerService and the GDB processes it spawns.
\* GDB is modelled by what GDB/MI does: it reads commands from its stdin in
\* order while the program it debugs is not executing, answers each with a
\* result record and a prompt, and reports the program's stops and its end
\* with asynchronous records.
Sessions == 1..MaxSessions

\* Source lines a breakpoint is asked for: one with code, one without
Lines == {5, 99}

ValidLines == {5}

\* line.includes(marker), for the markers debugger.ts looks for
LineIncludes(line, marker) ==
    CASE marker = "(gdb)" -> line = "(gdb)"
      [] marker = "^done" -> line \in {"^done", "^done,locals=[]"}
      [] marker = "locals=[" -> line = "^done,locals=[]"
      [] marker = "^error" -> line = "^error"
      [] marker = "*running" -> line = "^running*running"
      [] marker = "*stopped" -> line \in {"*stopped", "*stopped,reason=exited"}
      [] marker = "exited" -> line = "*stopped,reason=exited"
      [] OTHER -> FALSE

\* A chunk of stdout is a sequence of lines, the first and the last of
\* which may be only a part of the line; the part is cut inside every
\* marker of the line. data.includes(marker):
Includes(data, marker) ==
    \E i \in DOMAIN data : data[i].whole /\ LineIncludes(data[i].line, marker)

\* '' (sendCommand without a process, or timed out)
EmptyString == <<>>

NoGdb ==
    [life |-> "none", program |-> "notrun", stdin |-> <<>>, stdout |-> <<>>,
     cut |-> FALSE, breakpoints |-> {}, nextNumber |-> 1]

\* spawn(gdbPath, ['--interpreter=mi', executablePath]): GDB prints its
\* banner and the first prompt
SpawnedGdb ==
    [NoGdb EXCEPT !.life = "alive", !.stdout = <<"(gdb)">>]

IdleState == [status |-> "idle", breakpoints |-> <<>>, locals |-> "empty"]

\* The service and what one turn of the event loop has done to it so far:
\* the fields of DebuggerService, the GDB processes it writes to and kills,
\* the commands written and the stateChanged events emitted in this turn.
Service ==
    [gdbProcess |-> gdbProcess, state |-> debugState,
     breakpointCounter |-> breakpointCounter, listeners |-> listeners,
     commandCount |-> commandCount, resolved |-> {},
     bpCommand |-> bpCommand, gdb |-> gdb, stopCompleted |-> stopCompleted,
     wrote |-> <<>>, events |-> 0]

\* this.emit('stateChanged', this.getState())
EmitStateChanged(S) ==
    [S EXCEPT !.events = @ + 1]

\* this.gdbProcess.stdin.write(command): GDB gets it if it is still there
Write(S, command, arg, id) ==
    [S EXCEPT !.wrote = Append(@, command),
              !.gdb[S.gdbProcess].stdin =
                  IF S.gdb[S.gdbProcess].life = "alive"
                  THEN Append(@, [command |-> command, arg |-> arg, id |-> id])
                  ELSE @]

\* The breakpoint setBreakpoint pushes after a ^done
AddBreakpoint(S, line, id) ==
    LET bp == [id |-> S.breakpointCounter + 1, line |-> line]
    IN  EmitStateChanged(
            [S EXCEPT !.breakpointCounter = @ + 1,
                      !.state.breakpoints = Append(@, bp),
                      !.bpCommand = [b \in DOMAIN @ \cup {bp.id} |->
                                        IF b = bp.id THEN id ELSE @[b]]])

RECURSIVE Continue(_, _, _)
RECURSIVE sendCommand(_, _, _, _)

\* sendCommand(command): '' at once without a process; otherwise the
\* responseHandler is registered on 'stdout', the command is written and
\* the 5 s timer is set. `owner` is the code that awaits the promise.
sendCommand(S, command, arg, owner) ==
    LET id == S.commandCount + 1
        T == [S EXCEPT !.commandCount = id]
        l == [id |-> id, owner |-> owner, arg |-> arg, command |-> command]
    IN  IF S.gdbProcess = 0
        THEN Continue([T EXCEPT !.resolved = @ \cup {[id |-> id, command |-> command,
                                                       via |-> "none",
                                                       data |-> EmptyString]}],
                      l, EmptyString)
        ELSE Write([T EXCEPT !.listeners = Append(@, l)], command, arg, id)

\* What runs when the promise of listener l resolves with data: the rest of
\* the async function that awaited it.
Continue(S, l, data) ==
    CASE l.owner = "waitForPrompt" ->
            \* start, the loop over its breakpoints: setBreakpoint returns
            \* null without a process
            IF l.arg # 0 /\ S.gdbProcess # 0
            THEN sendCommand(S, "-break-insert", l.arg, "startBreakpoint")
            ELSE sendCommand(S, "-exec-run", 0, "start")
      [] l.owner = "startBreakpoint" ->
            sendCommand(IF Includes(data, "^done") THEN AddBreakpoint(S, l.arg, l.id) ELSE S,
                        "-exec-run", 0, "start")
      [] l.owner = "start" ->
            EmitStateChanged([S EXCEPT !.state.status = "running"])
      [] l.owner = "setBreakpoint" ->
            IF Includes(data, "^done") THEN AddBreakpoint(S, l.arg, l.id) ELSE S
      [] l.owner = "removeBreakpoint" ->
            LET Others(b) == b.id # l.arg
            IN  EmitStateChanged([S EXCEPT !.state.breakpoints = SelectSeq(@, Others)])
      [] l.owner = "getLocals" ->
            EmitStateChanged(
                [S EXCEPT !.state.locals =
                    IF Includes(data, "locals=[") THEN "listed" ELSE "empty"])
      [] l.owner = "stop" ->
            \* this.gdbProcess.kill() throws when the exit listener has set
            \* gdbProcess to null meanwhile: stop() rejects there
            IF S.gdbProcess = 0 THEN S
            ELSE EmitStateChanged(
                    [S EXCEPT !.gdb[S.gdbProcess].life =
                                  IF @ = "alive" THEN "dead" ELSE @,
                              !.gdbProcess = 0,
                              !.state = IdleState,
                              !.stopCompleted = TRUE])
      [] OTHER -> S

responseHandler_KeepListener(l, data) ==
    [resolve |-> IF l.command = "waitForPrompt"
                 THEN Includes(data, "(gdb)")
                 ELSE \/ Includes(data, "(gdb)")
                      \/ Includes(data, "^done")
                      \/ Includes(data, "^error"),
     remove |-> FALSE]

\* responseHandler of sendCommand and checkPrompt of waitForPrompt, called
\* with a chunk: whether it resolves its promise and removes itself
responseHandler(l, data) ==
    LET found == IF l.command = "waitForPrompt"
                 THEN Includes(data, "(gdb)")
                 ELSE \/ Includes(data, "(gdb)")
                      \/ Includes(data, "^done")
                      \/ Includes(data, "^error")
    IN  [resolve |-> found, remove |-> found]

\* The continuations of the promises a chunk has resolved, in the order in
\* which their listeners were registered
RECURSIVE RunContinuations(_, _, _)
RunContinuations(S, resolved, data) ==
    IF resolved = <<>> THEN S
    ELSE RunContinuations(Continue(S, Head(resolved), data), Tail(resolved), data)

\* getLocals() as handleOutput calls it, with the stateChanged that follows
getLocals(S) ==
    IF S.gdbProcess = 0 \/ S.state.status # "stopped"
    THEN EmitStateChanged(S)
    ELSE sendCommand(S, "-stack-list-locals --all-values", 0, "getLocals")

\* The execution state a line of GDB's output reports, "none" for a line
\* that is no status record
RecordState(line) ==
    CASE LineIncludes(line, "*running") -> "running"
      [] LineIncludes(line, "exited") -> "exited"
      [] LineIncludes(line, "*stopped") -> "stopped"
      [] OTHER -> "none"

\* The execution state GDB has reported last, once the chunk data is handed
\* over: that of the last status record that ends in the chunk
LastReported(data, cutLast, before) ==
    LET ends == {i \in DOMAIN data : /\ RecordState(data[i].line) # "none"
                                     /\ ~(i = Len(data) /\ cutLast)}
    IN  IF ends = {} THEN before
        ELSE RecordState(data[CHOOSE i \in ends : \A j \in ends : j <= i].line)

\* The status values handleOutput assigns for a chunk, in its order
StatusAssignments(data) ==
    (IF Includes(data, "*stopped") THEN <<"stopped">> ELSE <<>>)
    \o (IF Includes(data, "*running") THEN <<"running">> ELSE <<>>)
    \o (IF Includes(data, "exited") THEN <<"exited">> ELSE <<>>)

\* handleOutput(data), and the continuations that run before the next event
handleOutput(S, data) ==
    LET Resolves(l) == responseHandler(l, data).resolve
        Stays(l) == ~responseHandler(l, data).remove
        resolved == SelectSeq(S.listeners, Resolves)
        S1 == [S EXCEPT !.listeners = SelectSeq(@, Stays),
                        !.resolved = @ \cup
                            {[id |-> resolved[i].id, command |-> resolved[i].command,
                              via |-> "chunk", data |-> data] : i \in DOMAIN resolved}]
        S2 == IF Includes(data, "*stopped")
              THEN getLocals([S1 EXCEPT !.state.status = "stopped"])
              ELSE S1
        S3 == IF Includes(data, "*running")
              THEN EmitStateChanged([S2 EXCEPT !.state.status = "running"])
              ELSE S2
        S4 == IF Includes(data, "exited")
              THEN EmitStateChanged([S3 EXCEPT !.state.status = "exited"])
              ELSE S3
    IN  RunContinuations(S4, resolved, data)

\* The timer of sendCommand (5 s) or of waitForPrompt (3 s) for listener l
sendCommandTimeout(S, l) ==
    LET Others(x) == x.id # l.id
        T == [S EXCEPT !.listeners = SelectSeq(@, Others),
                       !.resolved = @ \cup {[id |-> l.id, command |-> l.command,
                                              via |-> "timeout", data |-> EmptyString]}]
    IN  Continue(T, l, EmptyString)

\* start(code, breakpoints) from the spawn on, with at most one breakpoint
\* (line 0: none): GDB is spawned, gdbProcess refers to it, and
\* waitForPrompt registers checkPrompt.
start(S, line) ==
    LET s == Cardinality({x \in Sessions : S.gdb[x].life # "none"}) + 1
        id == S.commandCount + 1
    IN  [S EXCEPT !.gdbProcess = s,
                  !.gdb[s] = SpawnedGdb,
                  !.stopCompleted = FALSE,
                  !.commandCount = id,
                  !.listeners = Append(@, [id |-> id, owner |-> "waitForPrompt",
                                           arg |-> line, command |-> "waitForPrompt"])]

\* stop()
stop(S) ==
    IF S.gdbProcess # 0
    THEN sendCommand(S, "-gdb-exit", 0, "stop")
    ELSE EmitStateChanged([S EXCEPT !.state = IdleState, !.stopCompleted = TRUE])

\* setBreakpoint(file, line)
setBreakpoint(S, line) ==
    IF S.gdbProcess = 0 THEN S
    ELSE sendCommand(S, "-break-insert", line, "setBreakpoint")

\* removeBreakpoint(id)
removeBreakpoint(S, id) ==
    IF S.gdbProcess = 0 THEN S
    ELSE IF \E i \in DOMAIN S.state.breakpoints : S.state.breakpoints[i].id = id
    THEN sendCommand(S, "-break-delete", id, "removeBreakpoint")
    ELSE S

StepGuard_ProcessOnly(S) ==
    S.gdbProcess # 0

\* if (!this.gdbProcess || this.state.status !== 'stopped') return
StepGuard(S) ==
    S.gdbProcess # 0 /\ S.state.status = "stopped"

\* stepOver / stepInto / stepOut / continue, with their command
Step(S, command) ==
    IF ~StepGuard(S) THEN S
    ELSE sendCommand(EmitStateChanged([S EXCEPT !.state.status = "running"]),
                     command, 0, "step")

StepCommands ==
    [stepOver |-> "-exec-next", stepInto |-> "-exec-step", stepOut |-> "-exec-finish",
     continue |-> "-exec-continue"]

NoChunk == [session |-> 0, data |-> <<>>, before |-> 0]

NoCallYet ==
    [op |-> "none", arg |-> 0, hadProcess |-> FALSE, pre |-> IdleState, post |-> IdleState,
     wrote |-> <<>>, events |-> 0]

\* The service after a turn of the event loop
Commit(S) ==
    /\ gdbProcess' = S.gdbProcess
    /\ debugState' = S.state
    /\ breakpointCounter' = S.breakpointCounter
    /\ listeners' = S.listeners
    /\ commandCount' = S.commandCount
    /\ lastResolved' = S.resolved
    /\ bpCommand' = S.bpCommand
    /\ gdb' = S.gdb
    /\ stopCompleted' = S.stopCompleted

\* A call of the service through its IPC handler
Call(op, arg, S) ==
    /\ UNCHANGED nonDebugVars
    /\ callsLeft' = callsLeft - 1
    /\ sessionsLeft' = IF op = "start" THEN sessionsLeft - 1 ELSE sessionsLeft
    /\ Commit(S)
    /\ lastCall' = [op |-> op, arg |-> arg, hadProcess |-> gdbProcess # 0,
                    pre |-> debugState, post |-> S.state, wrote |-> S.wrote,
                    events |-> S.events]
    /\ lastChunk' = NoChunk
    /\ UNCHANGED <<answers, recordBalance, cutsLeft, reported>>

\* debugger:start. The panel offers Start while status is idle or exited.
DebuggerStart ==
    /\ callsLeft > 0
    /\ debugState.status \in {"idle", "exited"}
    /\ sessionsLeft > 0
    /\ \E line \in Lines \cup {0} : Call("start", line, start(Service, line))

\* debugger:stop
DebuggerStop ==
    /\ callsLeft > 0
    /\ Call("stop", 0, stop(Service))

\* debugger:set-breakpoint
DebuggerSetBreakpoint ==
    /\ callsLeft > 0
    /\ \E line \in Lines : Call("setBreakpoint", line, setBreakpoint(Service, line))

\* debugger:remove-breakpoint
DebuggerRemoveBreakpoint ==
    /\ callsLeft > 0
    /\ \E id \in 1..(breakpointCounter + 1) :
        Call("removeBreakpoint", id, removeBreakpoint(Service, id))

\* debugger:step-over
DebuggerStepOver ==
    /\ callsLeft > 0
    /\ Call("stepOver", 0, Step(Service, StepCommands.stepOver))

\* debugger:step-into
DebuggerStepInto ==
    /\ callsLeft > 0
    /\ Call("stepInto", 0, Step(Service, StepCommands.stepInto))

\* debugger:step-out
DebuggerStepOut ==
    /\ callsLeft > 0
    /\ Call("stepOut", 0, Step(Service, StepCommands.stepOut))

\* debugger:continue
DebuggerContinue ==
    /\ callsLeft > 0
    /\ Call("continue", 0, Step(Service, StepCommands.continue))

\* What GDB does with the next command on its stdin: its new state, the
\* lines it prints and, for the record, its answer to that command.
GdbAnswer(g, c) ==
    LET Rest == [g EXCEPT !.stdin = Tail(@)]
        Done(h, answer) ==
            [gdb |-> [h EXCEPT !.stdout = @ \o <<"^done", "(gdb)">>], answer |-> answer]
        Error ==
            [gdb |-> [Rest EXCEPT !.stdout = @ \o <<"^error", "(gdb)">>],
             answer |-> [result |-> "error", number |-> 0]]
        Running ==
            [gdb |-> [Rest EXCEPT !.program = "running",
                                  !.stdout = @ \o <<"^running*running", "(gdb)">>],
             answer |-> [result |-> "running", number |-> 0]]
    IN  CASE c.command = "-break-insert" ->
                IF c.arg \in ValidLines
                THEN Done([Rest EXCEPT !.breakpoints = @ \cup {g.nextNumber},
                                       !.nextNumber = @ + 1],
                          [result |-> "done", number |-> g.nextNumber])
                ELSE Error
          [] c.command = "-break-delete" ->
                IF c.arg \in g.breakpoints
                THEN Done([Rest EXCEPT !.breakpoints = @ \ {c.arg}],
                          [result |-> "done", number |-> c.arg])
                ELSE Error
          [] c.command = "-exec-run" ->
                Running
          [] c.command \in {"-exec-next", "-exec-step", "-exec-finish", "-exec-continue"} ->
                IF g.program = "stopped" THEN Running ELSE Error
          [] c.command = "-stack-list-locals --all-values" ->
                IF g.program = "stopped"
                THEN [gdb |-> [Rest EXCEPT !.stdout = @ \o <<"^done,locals=[]", "(gdb)">>],
                      answer |-> [result |-> "done", number |-> 0]]
                ELSE Error
          [] OTHER ->
                \* -gdb-exit
                [gdb |-> [Rest EXCEPT !.stdout = @ \o <<"^exit">>, !.life = "dead"],
                 answer |-> [result |-> "exit", number |-> 0]]

\* GDB reads the next command; it does not while the program executes
GdbReadsCommand(s) ==
    /\ UNCHANGED nonDebugVars
    /\ gdb[s].life = "alive"
    /\ gdb[s].stdin # <<>>
    /\ gdb[s].program # "running"
    /\ LET c == Head(gdb[s].stdin)
           a == GdbAnswer(gdb[s], c)
       IN  /\ gdb' = [gdb EXCEPT ![s] = a.gdb]
           /\ answers' = [x \in DOMAIN answers \cup {c.id} |->
                             IF x = c.id
                             THEN [result |-> a.answer.result, number |-> a.answer.number,
                                   session |-> s]
                             ELSE answers[x]]
           /\ recordBalance' = [recordBalance EXCEPT ![s] =
                                   IF a.answer.result = "running" THEN @ + 1 ELSE @]
    /\ lastResolved' = {}
    /\ lastCall' = NoCallYet
    /\ lastChunk' = NoChunk
    /\ UNCHANGED reported
    /\ UNCHANGED <<gdbProcess, debugState, breakpointCounter, listeners, commandCount,
                   bpCommand, stopCompleted, callsLeft, sessionsLeft, cutsLeft>>

\* The debugged program halts: at a breakpoint, after a step, on a signal
DebuggeeStops(s) ==
    /\ UNCHANGED nonDebugVars
    /\ gdb[s].life = "alive"
    /\ gdb[s].program = "running"
    /\ gdb' = [gdb EXCEPT ![s].program = "stopped",
                          ![s].stdout = @ \o <<"*stopped", "(gdb)">>]
    /\ recordBalance' = [recordBalance EXCEPT ![s] = @ + 1]
    /\ lastResolved' = {}
    /\ lastCall' = NoCallYet
    /\ lastChunk' = NoChunk
    /\ UNCHANGED reported
    /\ UNCHANGED <<gdbProcess, debugState, breakpointCounter, listeners, commandCount,
                   bpCommand, stopCompleted, callsLeft, sessionsLeft, cutsLeft, answers>>

\* The debugged program ends: *stopped,reason="exited-normally"
DebuggeeExits(s) ==
    /\ UNCHANGED nonDebugVars
    /\ gdb[s].life = "alive"
    /\ gdb[s].program = "running"
    /\ gdb' = [gdb EXCEPT ![s].program = "exited",
                          ![s].stdout = @ \o <<"*stopped,reason=exited", "(gdb)">>]
    /\ recordBalance' = [recordBalance EXCEPT ![s] = @ + 2]
    /\ lastResolved' = {}
    /\ lastCall' = NoCallYet
    /\ lastChunk' = NoChunk
    /\ UNCHANGED reported
    /\ UNCHANGED <<gdbProcess, debugState, breakpointCounter, listeners, commandCount,
                   bpCommand, stopCompleted, callsLeft, sessionsLeft, cutsLeft, answers>>

\* gdbProcess.stdout.on('data') of session s: the pipe hands over the next
\* line or all the lines GDB has written, the last one possibly in part, and
\* handleOutput(data.toString()) runs.
GdbStdoutData(s) ==
    /\ UNCHANGED nonDebugVars
    /\ gdb[s].stdout # <<>>
    /\ \E n \in {1, Len(gdb[s].stdout)}, cutLast \in BOOLEAN :
        /\ ~(cutLast /\ n = 1 /\ gdb[s].cut)
        /\ cutLast => cutsLeft > 0
        /\ cutsLeft' = IF cutLast THEN cutsLeft - 1 ELSE cutsLeft
        /\ LET data == [i \in 1..n |->
                          [line |-> gdb[s].stdout[i],
                           whole |-> ~(i = 1 /\ gdb[s].cut) /\ ~(i = n /\ cutLast)]]
               left == [gdb[s] EXCEPT
                          !.stdout = SubSeq(@, IF cutLast THEN n ELSE n + 1, Len(@)),
                          !.cut = cutLast]
               S == handleOutput([Service EXCEPT !.gdb[s] = left], data)
           IN  /\ Commit(S)
               /\ recordBalance' = [recordBalance EXCEPT ![s] =
                                       @ - Len(StatusAssignments(data))]
               /\ reported' = [reported EXCEPT ![s] = LastReported(data, cutLast, @)]
               /\ lastChunk' = [session |-> s, data |-> data, before |-> commandCount]
    /\ lastCall' = NoCallYet
    /\ UNCHANGED <<callsLeft, sessionsLeft, answers>>

\* gdbProcess.on('exit') of session s
GdbExit(s) ==
    /\ UNCHANGED nonDebugVars
    /\ gdb[s].life = "dead"
    /\ gdb' = [gdb EXCEPT ![s].life = "reaped"]
    /\ debugState' = [debugState EXCEPT !.status = "exited"]
    /\ gdbProcess' = 0
    /\ lastResolved' = {}
    /\ lastCall' = NoCallYet
    /\ lastChunk' = NoChunk
    /\ UNCHANGED reported
    /\ UNCHANGED <<breakpointCounter, listeners, commandCount, bpCommand, stopCompleted,
                   recordBalance, callsLeft, sessionsLeft, cutsLeft, answers>>

\* A timer of sendCommand (5 s) or waitForPrompt (3 s) fires. A timer fires
\* after those set before it that are not longer than it.
ListenerTimeout ==
    /\ UNCHANGED nonDebugVars
    /\ \E i \in DOMAIN listeners :
        /\ \A j \in 1..(i - 1) :
               /\ listeners[j].command # "waitForPrompt"
               /\ listeners[i].command = "waitForPrompt"
        /\ Commit(sendCommandTimeout(Service, listeners[i]))
    /\ lastCall' = NoCallYet
    /\ lastChunk' = NoChunk
    /\ UNCHANGED reported
    /\ UNCHANGED <<recordBalance, callsLeft, sessionsLeft, cutsLeft, answers>>

DebugIdle ==
    /\ gdbProcess = 0
    /\ debugState = IdleState
    /\ breakpointCounter = 0
    /\ listeners = <<>>
    /\ commandCount = 0
    /\ lastResolved = {}
    /\ bpCommand = <<>>
    /\ gdb = [s \in Sessions |-> NoGdb]
    /\ stopCompleted = FALSE
    /\ answers = <<>>
    /\ recordBalance = [s \in Sessions |-> 0]
    /\ lastCall = NoCallYet
    /\ lastChunk = NoChunk
    /\ reported = [s \in Sessions |-> "none"]

\* What a specification lets the debugger's user and the pipe do
DebugBudget(calls, sessions, cuts) ==
    /\ callsLeft = calls
    /\ sessionsLeft = sessions
    /\ cutsLeft = cuts

DebugNext ==
    \/ DebuggerStart
    \/ DebuggerStop
    \/ DebuggerSetBreakpoint
    \/ DebuggerRemoveBreakpoint
    \/ DebuggerStepOver
    \/ DebuggerStepInto
    \/ DebuggerStepOut
    \/ DebuggerContinue
    \/ ListenerTimeout
    \/ \E s \in Sessions : GdbReadsCommand(s)
    \/ \E s \in Sessions : DebuggeeStops(s)
    \/ \E s \in Sessions : DebuggeeExits(s)
    \/ \E s \in Sessions : GdbStdoutData(s)
    \/ \E s \in Sessions : GdbExit(s)

\* ------------------------------------------------ claims on the debugger
\* C12: handleOutput works record by record: once the whole of GDB's output
\* has been handed over, every *running, *stopped and exit record GDB has
\* written has changed the status once, however the stream was split into
\* chunks.
C12_EveryRecordChangesStateOnce ==
    \A s \in Sessions :
        (gdb[s].stdout = <<>> /\ gdb[s].life # "none") => recordBalance[s] = 0

\* C13: at most one GDB process is alive, and gdbProcess refers to it: a
\* start never leaves an earlier GDB running, and no exit of an earlier GDB
\* detaches the session in progress.
C13_AtMostOneGdbAlive ==
    /\ Cardinality({s \in Sessions : gdb[s].life = "alive"}) <= 1
    /\ \A s \in Sessions : gdb[s].life = "alive" => gdbProcess = s

\* C15: stepOver, stepInto, stepOut and continue act only with a GDB process
\* and status 'stopped': then the status becomes 'running', one stateChanged
\* is emitted and exactly their one command is written to GDB; otherwise
\* nothing is written, nothing is emitted and the state is as it was.
C15_StepsActOnlyWhenStopped ==
    lastCall.op \in DOMAIN StepCommands =>
        IF lastCall.hadProcess /\ lastCall.pre.status = "stopped"
        THEN /\ lastCall.post = [lastCall.pre EXCEPT !.status = "running"]
             /\ debugState = lastCall.post
             /\ lastCall.events = 1
             /\ lastCall.wrote = <<StepCommands[lastCall.op]>>
        ELSE /\ lastCall.post = lastCall.pre
             /\ debugState = lastCall.pre
             /\ lastCall.events = 0
             /\ lastCall.wrote = <<>>

\* A step command called while GDB has the program stopped
C15_Witness ==
    /\ lastCall.op \in DOMAIN StepCommands
    /\ lastCall.hadProcess
    /\ lastCall.pre.status = "stopped"
    /\ debugState.status = "running"
    /\ \E s \in Sessions : gdb[s].stdin # <<>> /\ gdb[s].stdin[Len(gdb[s].stdin)].command = StepCommands[lastCall.op]

\* C16: after every chunk handleOutput has processed, and so after start()
\* has returned, the status is the execution state GDB has reported last.
C16_StatusIsGdbsExecutionState ==
    (lastChunk.session # 0 /\ lastChunk.session = gdbProcess
        /\ reported[gdbProcess] # "none")
        => debugState.status = reported[gdbProcess]

\* C17: once stop() has completed there is no GDB process, the status is
\* 'idle' and the breakpoints and the locals are empty, and getState() keeps
\* returning that until the next start.
C17_IdleAfterStop ==
    stopCompleted => gdbProcess = 0 /\ debugState = IdleState

\* C18: a breakpoint is in the state only if GDB has answered the very
\* -break-insert command that setBreakpoint sent for it with ^done.
C18_BreakpointsAcknowledgedByGdb ==
    \A i \in DOMAIN debugState.breakpoints :
        LET c == bpCommand[debugState.breakpoints[i].id]
        IN  c \in DOMAIN answers /\ answers[c].result = "done"

\* C19: in every session a breakpoint carries the number GDB has assigned to
\* it, so that -break-delete <id> deletes exactly that breakpoint; no two
\* breakpoints of the state share an id.
C19_BreakpointIdIsGdbsNumber ==
    /\ \A i \in DOMAIN debugState.breakpoints :
          LET id == debugState.breakpoints[i].id
              c == bpCommand[id]
          IN  (c \in DOMAIN answers /\ answers[c].result = "done")
                  => id = answers[c].number
    /\ \A i, j \in DOMAIN debugState.breakpoints :
          debugState.breakpoints[i].id = debugState.breakpoints[j].id => i = j

\* C20: the promise of sendCommand always resolves: with '' at once when
\* there is no GDB process, with the first stdout chunk that contains
\* '(gdb)', '^done' or '^error', or with '' when its 5 s timer fires; once
\* it has resolved, its listener is no longer registered on 'stdout'.
C20_SendCommandAlwaysResolves ==
    /\ [](\A p \in lastResolved :
            /\ p.via \in {"none", "timeout"} => p.data = EmptyString
            /\ p.via = "chunk" =>
                  /\ p.data = lastChunk.data
                  /\ \/ Includes(p.data, "(gdb)")
                     \/ Includes(p.data, "^done")
                     \/ Includes(p.data, "^error")
            /\ \A i \in DOMAIN listeners : listeners[i].id # p.id)
    /\ [](lastChunk.session # 0 =>
            \A i \in DOMAIN listeners :
                (listeners[i].id <= lastChunk.before
                    /\ listeners[i].command # "waitForPrompt")
                => ~(\/ Includes(lastChunk.data, "(gdb)")
                     \/ Includes(lastChunk.data, "^done")
                     \/ Includes(lastChunk.data, "^error")))
    /\ []<>(listeners = <<>>)

\* A command written to GDB whose promise a chunk of GDB's output resolves
C20_Witness ==
    \E p \in lastResolved :
        /\ p.via = "chunk"
        /\ p.command = "-break-insert"
        /\ Includes(p.data, "^done")

\* ========================================================= specifications
\* Each specification starts its own service in any state it can be loaded
\* in and leaves the other services idle.
AnalyticsSpecInit ==
    AnalyticsInit /\ DetectIdle /\ CompileIdle /\ RunIdle /\ bytesLeft = 0 /\ TabsIdle /\ LegacyIdle /\ DebugIdle /\ DebugBudget(0, 0, 0)

AnalyticsSpec ==
    AnalyticsSpecInit /\ [][AnalyticsNext]_vars

DetectSpecInit ==
    DetectInit /\ AnalyticsIdle /\ CompileIdle /\ RunIdle /\ bytesLeft = 0 /\ TabsIdle /\ LegacyIdle /\ DebugIdle /\ DebugBudget(0, 0, 0)

DetectSpec ==
    DetectSpecInit /\ [][DetectNext]_vars

CompileSpecInit ==
    CompileIdle /\ AnalyticsIdle /\ DetectIdle /\ RunIdle /\ bytesLeft = 0 /\ TabsIdle /\ LegacyIdle /\ DebugIdle /\ DebugBudget(0, 0, 0)

CompileSpec ==
    CompileSpecInit /\ [][CompileNext]_vars

CompileFairSpecInit ==
    CompileIdle /\ AnalyticsIdle /\ DetectIdle /\ RunIdle /\ bytesLeft = 0 /\ TabsIdle /\ LegacyIdle /\ DebugIdle /\ DebugBudget(0, 0, 0)

CompileFairSpec ==
    CompileFairSpecInit /\ [][CompileNext]_vars /\ CompileFairness

RunSpecInit ==
    RunIdle /\ bytesLeft = MaxBytes /\ AnalyticsIdle /\ DetectIdle /\ CompileIdle /\ TabsIdle /\ LegacyIdle /\ DebugIdle /\ DebugBudget(0, 0, 0)

RunSpec ==
    RunSpecInit /\ [][RunNext]_vars

RunFairSpecInit ==
    RunIdle /\ bytesLeft = MaxFairBytes /\ AnalyticsIdle /\ DetectIdle /\ CompileIdle /\ TabsIdle /\ LegacyIdle /\ DebugIdle /\ DebugBudget(0, 0, 0)

RunFairSpec ==
    RunFairSpecInit /\ [][RunNext]_vars /\ RunFairness

TabsSpecInit ==
    TabsIdle /\ LegacyIdle /\ AnalyticsIdle /\ DetectIdle /\ CompileIdle /\ RunIdle /\ bytesLeft = 0
    /\ DebugIdle /\ DebugBudget(0, 0, 0)

TabsSpec ==
    TabsSpecInit /\ [][TabsNext]_vars

LegacySpecInit ==
    LegacyIdle /\ AnalyticsIdle /\ DetectIdle /\ CompileIdle /\ RunIdle /\ bytesLeft = 0
    /\ TabsIdle /\ DebugIdle /\ DebugBudget(0, 0, 0)

LegacySpec ==
    LegacySpecInit /\ [][LegacyNext]_vars

\* One session, the pipe free to split GDB's output
DebugSpecInit ==
    DebugIdle /\ DebugBudget(MaxCalls, 1, MaxCuts) /\ AnalyticsIdle /\ DetectIdle /\ CompileIdle
    /\ RunIdle /\ bytesLeft = 0 /\ TabsIdle /\ LegacyIdle

DebugSpec ==
    DebugSpecInit /\ [][DebugNext]_vars

\* Sessions one after the other, whole lines
DebugRestartSpecInit ==
    DebugIdle /\ DebugBudget(MaxCalls, MaxSessions, 0) /\ AnalyticsIdle /\ DetectIdle
    /\ CompileIdle /\ RunIdle /\ bytesLeft = 0 /\ TabsIdle /\ LegacyIdle

DebugRestartSpec ==
    DebugRestartSpecInit /\ [][DebugNext]_vars

\* One session, whole lines: what the timers and the event loop guarantee
DebugFairSpecInit ==
    DebugIdle /\ DebugBudget(MaxCalls, 1, 0) /\ AnalyticsIdle /\ DetectIdle /\ CompileIdle
    /\ RunIdle /\ bytesLeft = 0 /\ TabsIdle /\ LegacyIdle

DebugFairSpec ==
    DebugFairSpecInit /\ [][DebugNext]_vars /\ WF_vars(ListenerTimeout)

====
